---- MODULE Spec2Model ----
(***************************************************************************)
(* Model of the PDF highlight / drawing analysis API.                      *)
(*                                                                         *)
(*   src/main.py                     annotation prototype (/highlight-pdf) *)
(*   src/src/main.py                 analysis service (GET / and the four  *)
(*                                   analysis endpoints)                   *)
(*   src/src/infrastructure/gemini.py  GeminiImageAnalyzer (model client)  *)
(*                                                                         *)
(* Strings that the code inspects (file names) are sequences of one-letter *)
(* strings; messages are sequences of tokens, so that concatenation and    *)
(* containment are computed.  Images are abstract: a rasterized PDF is its *)
(* number of pages.  The hosted model, the PDF libraries and the upload    *)
(* are the environment: their outcomes are chosen with \E.                 *)
(***************************************************************************)
EXTENDS Integers, Sequences, FiniteSets, TLC

VARIABLES
    env,               \* process environment: GEMINI_API_KEY, whether the SDK client can be built, assets/images/target.png
    gemini_available,  \* src/src/main.py:41,46  module flag
    gemini_analyzer,   \* src/src/main.py:40,45  module-level analyzer: {} is None, {[model_name |-> m]} an instance
    req,               \* the requests in flight: request id -> handler frame (position, parameters, locals, response)
    call               \* a function under test: its name, its arguments and, once applied, its result

vars == <<env, gemini_available, gemini_analyzer, req, call>>

----------------------------------------------------------------------------
(* Bounds of the model *)

MaxPages == 2       \* pages a rasterized PDF may have (0..MaxPages)
MaxDet == 1         \* detections a page entry of a model reply may list (0..MaxDet)
MaxEntries == 2     \* page entries in the "pages" list of a model reply (0..MaxEntries)

----------------------------------------------------------------------------
(* Strings *)

\* str.lower(), on the letters the file names of the model use
lower_char(c) ==
    CASE c = "A" -> "a"
      [] c = "P" -> "p"
      [] c = "D" -> "d"
      [] c = "F" -> "f"
      [] OTHER -> c

str_lower(s) == [i \in 1..Len(s) |-> lower_char(s[i])]

\* str.endswith(suffix)
endswith(s, suffix) ==
    /\ Len(s) >= Len(suffix)
    /\ SubSeq(s, Len(s) - Len(suffix) + 1, Len(s)) = suffix

DotPdf == <<".", "p", "d", "f">>

\* b occurs in a as a contiguous run of tokens (Python's  b in a)
Contains(a, b) ==
    \E i \in 0..(Len(a) - Len(b)) : SubSeq(a, i + 1, i + Len(b)) = b

\* UploadFile.filename: None, or a string
NoName == [is_none |-> TRUE, s |-> <<>>]
Name(s) == [is_none |-> FALSE, s |-> s]

Filenames ==
    { NoName,
      Name(<<>>),
      Name(<<"a", ".", "p", "d", "f">>),
      Name(<<"A", ".", "P", "D", "F">>),
      Name(<<"a", ".", "P", "d", "f">>),
      Name(<<"a", ".", "t", "x", "t">>),
      Name(<<"p", "d", "f">>),
      Name(<<".", "p", "d", "f", "x">>) }

\* Python truthiness of file.filename
truthy_name(f) == ~f.is_none /\ f.s # <<>>

----------------------------------------------------------------------------
(* Messages: sequences of tokens.  str(e) of an exception is its tokens.   *)

\* str(HTTPException(status_code, detail)) is "<status_code>: <detail>"
\* (starlette.exceptions.HTTPException.__str__)
status_str(status_code) ==
    CASE status_code = 400 -> "400"
      [] status_code = 500 -> "500"
      [] status_code = 503 -> "503"
      [] OTHER -> "200"

http_exception_str(status_code, detail) == <<status_str(status_code), ": ">> \o detail

\* an exception in flight: an HTTPException (status_code, detail) or any other
\* Exception with its message
HTTPException(status_code, detail) == [http |-> TRUE, status_code |-> status_code, msg |-> detail]
Exc(msg) == [http |-> FALSE, status_code |-> 0, msg |-> msg]

\* str(e)
str_exc(e) == IF e.http THEN http_exception_str(e.status_code, e.msg) ELSE e.msg

MsgUnavailable == <<"Gemini analysis service is not available. Please set GEMINI_API_KEY.">>
MsgUnavailableLong ==
    <<"Gemini analysis service is not available. Please set GEMINI_API_KEY in your .env file. Get your API key from: https://makersuite.google.com/app/apikey">>
MsgOnlyPdf == <<"Only PDF files are allowed">>

----------------------------------------------------------------------------
(* Startup of the analysis service: src/src/main.py lines 38-57 *)

ApiKeys == {"unset", "empty", "set"}     \* os.getenv("GEMINI_API_KEY"): None, "", a key

\* GeminiImageAnalyzer.__init__: raises ValueError without a key, and
\* whatever genai.Client raises; otherwise an instance with model_name
analyzer_init(environment, client_ok, model_name) ==
    IF environment.GEMINI_API_KEY # "set"
    THEN [raised |-> TRUE, msg |-> <<"GEMINI_API_KEY environment variable is not set">>,
          analyzer |-> {}]
    ELSE IF ~client_ok
    THEN [raised |-> TRUE, msg |-> <<"client error">>, analyzer |-> {}]
    ELSE [raised |-> FALSE, msg |-> <<>>, analyzer |-> {[model_name |-> model_name]}]

DefaultModel == "gemini-2.5-pro"
Models == {"gemini-2.5-pro", "gemini-2.5-flash"}

\* lines 39-57: the analyzer is built only when the key is truthy; a failure
\* is printed and leaves the flag False
startup_analyzer(environment) ==
    IF environment.GEMINI_API_KEY = "set"
    THEN analyzer_init(environment, environment.client_ok, DefaultModel).analyzer
    ELSE {}

startup_available(environment) ==
    /\ environment.GEMINI_API_KEY = "set"
    /\ ~analyzer_init(environment, environment.client_ok, DefaultModel).raised

\* the names bound at module level of src/src/main.py once it is imported
ModuleGlobals ==
    {"app", "logger", "gemini_api_key", "gemini_analyzer", "gemini_available",
     "hello_world", "gemini_document_analyze", "analyze_pdf", "gemini_pipe_shaft_detect",
     "_create_image_previews", "_create_highlighted_images", "detect_target_image",
     "_create_target_highlighted_images"}

----------------------------------------------------------------------------
(* JSON values and the model's response object                             *)
(*                                                                         *)
(* A JSON value is a record with a kind: "null" (Python None), "list",     *)
(* "scalar" (number, string, bool) or "dict".  A dict carries the keys it  *)
(* holds and, for the keys the code reads, their values.                   *)

JNull == [kind |-> "null"]
JList == [kind |-> "list"]
JScalar == [kind |-> "scalar"]

is_dict(v) == v.kind = "dict"
\* Python truthiness of a dict: it has a key
nonempty_dict(v) == is_dict(v) /\ v.keys # {}

\* a text: None, whitespace only, text that is not JSON, or the JSON text of v
TxtNone == [t |-> "none", v |-> JNull]
TxtBlank == [t |-> "blank", v |-> JNull]
TxtGarbage == [t |-> "garbage", v |-> JNull]
TxtJson(v) == [t |-> "json", v |-> v]

\* json.loads(text): the value, or JSONDecodeError
json_loads(text) ==
    IF text.t = "json" THEN [raised |-> FALSE, v |-> text.v]
    ELSE [raised |-> TRUE, v |-> JNull]

\* (getattr(response, "text", None) or "").strip() is a non-empty string
text_nonblank(text) == text.t \in {"garbage", "json"}

\* response.parsed: None, a pydantic model (model_dump() gives v, or raises),
\* a dict or list v, or any other object
ParsedNone == [kind |-> "none", v |-> JNull]
ParsedKinds == {"none", "pydantic", "pydantic_raises", "value", "other"}

\* an inline_data part: its mime type names json or not; its data are bytes
\* (utf-8 or not), a str, or something else
InlineDataKinds == {"bytes", "bytes_not_utf8", "str", "other"}

\* step 2 of _extract_structured, over the parts of all candidates in order:
\* the first json part whose data parse gives the result
RECURSIVE extract_inline(_, _)
extract_inline(parts, i) ==
    IF i > Len(parts) THEN [found |-> FALSE, v |-> JNull]
    ELSE LET p == parts[i]
             loaded == json_loads(p.data)
         IN  IF /\ p.mime_json
                /\ p.data_kind \in {"bytes", "str"}
                /\ ~loaded.raised
             THEN [found |-> TRUE, v |-> loaded.v]
             ELSE extract_inline(parts, i + 1)

\* GeminiImageAnalyzer._extract_structured: JNull stands for the None it returns
_extract_structured(response) ==
    IF response.parsed.kind \in {"pydantic", "value"}
    THEN response.parsed.v
    ELSE LET inl == extract_inline(response.parts, 1) IN
         IF inl.found THEN inl.v
         ELSE IF text_nonblank(response.text) /\ ~json_loads(response.text).raised
         THEN json_loads(response.text).v
         ELSE JNull

\* an outcome of client.models.generate_content: it raises, or gives a response
CallRaises(msg) == [raised |-> TRUE, msg |-> msg, response |-> [parsed |-> ParsedNone, parts |-> <<>>, text |-> TxtNone]]
CallGives(response) == [raised |-> FALSE, msg |-> <<>>, response |-> response]

----------------------------------------------------------------------------
(* The PDF analysis methods of GeminiImageAnalyzer                          *)

MsgFallbackNotes == <<"fallback: failed to parse structured output">>

\* a dict with "summary" and "pages"
PagesDict(keys, total, notes, pages) ==
    [kind |-> "dict", keys |-> keys, total |-> total, notes |-> notes,
     pages_kind |-> "list", pages |-> pages]

\* a dict with "summary" and "pages" whose "pages" is no list: pages_kind is
\* "null", "number" or "string" (a string that is not empty)
PagesNoList(pages_kind) ==
    [PagesDict({"summary", "pages"}, 0, <<>>, <<>>) EXCEPT !.pages_kind = pages_kind]

\* the fallback dict fb of the three methods
fallback_result == PagesDict({"summary", "pages"}, 0, MsgFallbackNotes, <<>>)

\* what a call did: it returned v or raised an exception with message msg,
\* after the model calls listed in calls and after rasterizing the PDF
\* rasters times
Returned(v, calls) == [raised |-> FALSE, msg |-> <<>>, v |-> v, calls |-> calls, rasters |-> 0]
Raised(msg, calls) == [raised |-> TRUE, msg |-> msg, v |-> JNull, calls |-> calls, rasters |-> 0]

\* if debug: fb["_debug"] = {...}   and   if debug: data.setdefault("_debug", {}):
\* with debug the dict d has the key "_debug" (a reply of the model is taken
\* to carry no "_debug" key of its own)
add_debug(d, debug) == IF debug THEN [d EXCEPT !.keys = @ \cup {"_debug"}] ELSE d

\* a variant that returns whatever dict the reply held, without the test for
\* "summary" and "pages"
parse_pages_response_unchecked(response, debug) ==
    LET structured == _extract_structured(response)
        data == IF nonempty_dict(structured) THEN structured
                ELSE IF text_nonblank(response.text) /\ ~json_loads(response.text).raised
                THEN json_loads(response.text).v
                ELSE JNull
    IN  IF ~is_dict(data) THEN add_debug(fallback_result, debug) ELSE add_debug(data, debug)

\* lines 385-426 (and 1120-1159, 1348-1386): from the response to the result;
\* with debug both the fallback (405-410) and the parsed dict (413-424) get
\* the key "_debug"
parse_pages_response(response, debug) ==
    LET structured == _extract_structured(response)
        data == IF nonempty_dict(structured) THEN structured
                ELSE IF text_nonblank(response.text) /\ ~json_loads(response.text).raised
                THEN json_loads(response.text).v
                ELSE JNull
    IN  IF ~is_dict(data) \/ "summary" \notin data.keys \/ "pages" \notin data.keys
        THEN add_debug(fallback_result, debug)
        ELSE add_debug(data, debug)

\* a variant that makes the second call whether or not the first raised
pdf_analysis_retry_always(prefix, o1, o2, debug) ==
    IF ~o2.raised
    THEN Returned(parse_pages_response(o2.response, debug), <<"schema", "plain">>)
    ELSE Raised(prefix \o o2.msg, <<"schema", "plain">>)

\* the try block shared by the three methods: the call with the schema, the
\* call without it when the first raised, then the parse; any exception is
\* re-raised with the method's prefix
pdf_analysis(prefix, o1, o2, debug) ==
    IF ~o1.raised
    THEN Returned(parse_pages_response(o1.response, debug), <<"schema">>)
    ELSE IF ~o2.raised
    THEN Returned(parse_pages_response(o2.response, debug), <<"schema", "plain">>)
    ELSE Raised(prefix \o o2.msg, <<"schema", "plain">>)

\* the prefixes of the three methods (Japanese in the source, glossed here):
\* gemini.py:428, gemini.py:1161, gemini.py:1388
MsgPdfAnalysisError == <<"PDF analysis error: ">>
MsgPipeShaftError == <<"pipe shaft detection error: ">>
MsgTargetDetectError == <<"target image detection error: ">>

analyze_pdf_document(o1, o2, debug) == pdf_analysis(MsgPdfAnalysisError, o1, o2, debug)

analyze_pipe_shafts(o1, o2, debug) == pdf_analysis(MsgPipeShaftError, o1, o2, debug)

MsgTargetNotFound == <<"Target image not found: ", "assets/images/target.png">>

\* before its try block the method loads the target image (lines 1236-1246)
\* and rasterizes the PDF again (convert_from_bytes, line 1249); what these
\* raise is not prefixed
detect_target_image_in_pdf(custom_target, target_png, raster_ok, o1, o2, debug) ==
    IF ~custom_target /\ ~target_png THEN Raised(MsgTargetNotFound, <<>>)
    ELSE IF ~raster_ok
    THEN [Raised(<<"Unable to get page count.">>, <<>>) EXCEPT !.rasters = 1]
    ELSE [pdf_analysis(MsgTargetDetectError, o1, o2, debug) EXCEPT !.rasters = 1]

----------------------------------------------------------------------------
(* Detections: the items of a "detections" list, and what drawing them does *)
(*                                                                         *)
(* A detection is a number (kind "number") or a dict (kind "dict") with    *)
(*   target, type   "absent", "null", "number", or a string: "", "PF100",  *)
(*                  "PF150", "other"                                       *)
(*   position       a record: kind "absent", "null", "number", "list" (a  *)
(*                  list of numbers), "string" (a string with no "x" or   *)
(*                  "y" in it), "string_xy" (a string with both in it),    *)
(*                  or "dict" with x and y each "absent", "null",          *)
(*                  "number", "string"                                     *)
(*   symbol_bbox    "absent", or a list: "numbers" (four numbers),         *)
(*                  "strings" (four strings), "nulls" (four nulls),        *)
(*                  "short" (two numbers)                                  *)
(* "number" is a number other than 0, "string" a string of digits such as  *)
(* "12".  The keys bbox, box_2d and box are absent.  A "detections" list   *)
(* holds ndet detections, all equal to its item.                           *)

NoPosition == [kind |-> "absent", x |-> "absent", y |-> "absent"]
Position(x, y) == [kind |-> "dict", x |-> x, y |-> y]
PositionScalar(kind) == [kind |-> kind, x |-> "absent", y |-> "absent"]

DetNumber ==
    [kind |-> "number", target |-> "absent", type |-> "absent", position |-> NoPosition,
     symbol_bbox |-> "absent"]
Det(target, type, position, symbol_bbox) ==
    [kind |-> "dict", target |-> target, type |-> type, position |-> position,
     symbol_bbox |-> symbol_bbox]

\* a detection that every drawing function draws
GoodDet == Det("PF100", "absent", Position("number", "number"), "numbers")

\* str(e) of the TypeError of  "..." in v  for a v that is no container
not_iterable(v) ==
    IF v = "null" THEN <<"argument of type 'NoneType' is not iterable">>
    ELSE <<"argument of type 'int' is not iterable">>

\* str(e) of the TypeError of  v * img_width / 1000  (<<>>: no error): None
\* fails at *, a string is repeated by * and fails at /
scale_error(v) ==
    CASE v = "null" -> <<"unsupported operand type(s) for *: 'NoneType' and 'int'">>
      [] v = "string" -> <<"unsupported operand type(s) for /: 'str' and 'int'">>
      [] OTHER -> <<>>

\* src/src/main.py:476  detection.get("target", "") or detection.get("type", "")
target_type(det) ==
    LET target == IF det.target = "absent" THEN "" ELSE det.target
        type == IF det.type = "absent" THEN "" ELSE det.type
    IN  IF target \in {"", "null"} THEN type ELSE target

\* src/src/main.py:482-485 and 627-630: the guard on "position" and the
\* conversion of x, then y; the message of what is raised, <<>> when nothing is
position_error(det) ==
    LET position == det.position IN
    CASE position.kind = "absent" -> <<>>
      [] position.kind \in {"null", "number"} -> not_iterable(position.kind)
      \* "x" in [1, 2] and "x" in "top" are false: the detection is skipped
      [] position.kind \in {"list", "string"} -> <<>>
      \* "x" in "x,y" and "y" in "x,y" are true, and "x,y"["x"] raises
      [] position.kind = "string_xy" -> <<"string indices must be integers, not 'str'">>
      [] OTHER ->
           IF position.x = "absent" \/ position.y = "absent" THEN <<>>
           ELSE IF scale_error(position.x) # <<>> THEN scale_error(position.x)
           ELSE scale_error(position.y)

\* the body of the loop over page_detections in _create_highlighted_images,
\* src/src/main.py:474-505
highlight_detection_error(det) ==
    IF det.kind = "number" THEN <<"'int' object has no attribute 'get'">>
    ELSE IF target_type(det) \in {"null", "number"} THEN not_iterable(target_type(det))
    ELSE IF target_type(det) \notin {"PF100", "PF150"} THEN <<>>
    ELSE position_error(det)

\* the body of the loop over page_detections in
\* _create_target_highlighted_images, src/src/main.py:626-646
target_detection_error(det) ==
    IF det.kind = "number" THEN not_iterable("number")
    ELSE position_error(det)

\* the body of the loop of GeminiImageAnalyzer.create_highlighted_image,
\* gemini.py:1187-1199, with _to_pixel_bbox (gemini.py:102-158) on symbol_bbox:
\* a list of four is scaled, a shorter list and a missing key draw nothing
bbox_detection_error(det) ==
    IF det.kind = "number" THEN <<"'int' object has no attribute 'get'">>
    ELSE CASE det.symbol_bbox = "strings" -> scale_error("string")
           [] det.symbol_bbox = "nulls" -> scale_error("null")
           [] OTHER -> <<>>

----------------------------------------------------------------------------
(* Symbol detection on one page image: gemini.py                            *)

\* a dict with "detections" and "summary" (the per-page detection result)
\*   item, ndet      "detections" is a list of ndet detections equal to item
\*   summary         "dict_total": a dict whose total_detections int() accepts;
\*                   "dict_no_total": a dict without total_detections;
\*                   "dict_bad_total": total_detections is a non-numeric string;
\*                   "not_dict": summary is no dict
DetDict(keys, item, ndet, summary) ==
    [kind |-> "dict", keys |-> keys, item |-> item, ndet |-> ndet, summary |-> summary]

SummaryKinds == {"dict_total", "dict_no_total", "dict_bad_total", "not_dict"}

\* the dicts with an "error" key that analyze_symbol_with_coordinates builds
\* (lines 608-612, 663-667): detections [], summary {"total_detections": 0}
symbol_error_dict == DetDict({"error", "detections", "summary"}, GoodDet, 0, "dict_total")

\* describe_target_image: raises when no target image can be loaded; a
\* failure of the model call is put into the description
describe_target_image(custom_target, target_png) ==
    IF ~custom_target /\ ~target_png THEN Raised(MsgTargetNotFound, <<>>)
    ELSE Returned(JNull, <<"plain">>)

\* analyze_symbol_with_coordinates, lines 456-670; with debug the returned
\* dict gets the key "_debug" in the parsed branch (624-643), in the fallback
\* branch (613-618) and in the except clause (668-669)
analyze_symbol_with_coordinates(custom_target, target_png, o1, o2, debug) ==
    IF ~custom_target /\ ~target_png THEN Raised(MsgTargetNotFound, <<>>)
    ELSE IF o1.raised /\ o2.raised
    THEN Returned(add_debug(symbol_error_dict, debug), <<"schema", "plain">>)
    ELSE LET response == IF o1.raised THEN o2.response ELSE o1.response
             calls == IF o1.raised THEN <<"schema", "plain">> ELSE <<"schema">>
             detection_data == _extract_structured(response)
         IN  IF ~is_dict(detection_data)
             \* None: the fallback dict; a list or scalar: the item assignment
             \* raises TypeError, caught by the outer except
             THEN Returned(add_debug(symbol_error_dict, debug), calls)
             ELSE Returned(add_debug([detection_data EXCEPT !.keys = @ \cup {"coordinate_space"}],
                                     debug), calls)

\* create_highlighted_image, gemini.py:1163-1210: the message of what drawing
\* the detections raises, <<>> when nothing is
create_highlighted_image_error(detection_data) ==
    IF "detections" \in detection_data.keys /\ detection_data.ndet > 0
    THEN bbox_detection_error(detection_data.item)
    ELSE <<>>

create_highlighted_image_raises(detection_data) ==
    create_highlighted_image_error(detection_data) # <<>>

\* lines 292-295: page_cnt = summary.get("total_detections", len(detections));
\* int(page_cnt or 0)
page_count_raises(detection_data) ==
    /\ "summary" \in detection_data.keys
    /\ detection_data.summary \in {"not_dict", "dict_bad_total"}

\* str(e) of what lines 292-295 raise: AttributeError of .get on a summary that
\* is no dict (a number), ValueError of int() on a total_detections that is
\* no number (the string 'abc')
page_count_error(detection_data) ==
    IF detection_data.summary = "not_dict"
    THEN <<"'int' object has no attribute 'get'">>
    ELSE <<"invalid literal for int() with base 10: 'abc'">>

----------------------------------------------------------------------------
(* Compositor: src/src/main.py                                             *)

\* an element of detection_data["pages"]:
\*   "ok"               a dict with "page" (an integer) and "detections"
\*   "no_page"          a dict without "page"
\*   "no_detections"    a dict with "page" and without "detections"
\*   "unhashable_page"  a dict with "detections" whose "page" is a list
\*   "not_dict"         not a dict (a number)
\* "detections" is (dets) a "list" of ndet detections equal to item, "null",
\* a "number", or a "string" of ndet characters
PageEntry(kind, page, item, ndet) ==
    [kind |-> kind, page |-> page, dets |-> "list", item |-> item, ndet |-> ndet]

\* an element with an integer "page" whose "detections" is no list
PageEntryNoList(page, dets, ndet) ==
    [PageEntry("ok", page, GoodDet, ndet) EXCEPT !.dets = dets]

\* for page in detection_data.get("pages", []): str(e) of what iterating a
\* "pages" that is no list raises, <<>> for a list; the elements of a string
\* are strings, and page["page"] raises on the first
pages_iter_error(detection_data) ==
    CASE detection_data.pages_kind = "null" -> <<"'NoneType' object is not iterable">>
      [] detection_data.pages_kind = "number" -> <<"'int' object is not iterable">>
      [] detection_data.pages_kind = "string" -> <<"string indices must be integers, not 'str'">>
      [] OTHER -> <<>>

\* {page["page"]: page["detections"] for page in detection_data.get("pages", [])}
\* evaluated left to right: the first entry that is no dict, lacks a key or
\* has a key that cannot be hashed raises (TypeError, KeyError)
RECURSIVE pages_data_error(_, _)
pages_data_error(pages, i) ==
    IF i > Len(pages) THEN <<>>
    ELSE CASE pages[i].kind = "not_dict" -> <<"'int' object is not subscriptable">>
           [] pages[i].kind = "no_page" -> <<"'page'">>
           [] pages[i].kind = "no_detections" -> <<"'detections'">>
           [] pages[i].kind = "unhashable_page" -> <<"unhashable type: 'list'">>
           [] OTHER -> pages_data_error(pages, i + 1)

\* pages_data.get(page_num, []): a later entry for the same page replaces an
\* earlier one
RECURSIVE pages_data_get(_, _, _)
pages_data_get(pages, page_num, i) ==
    IF i = 0 THEN PageEntry("ok", page_num, GoodDet, 0)
    ELSE IF pages[i].page = page_num THEN pages[i]
    ELSE pages_data_get(pages, page_num, i - 1)

HighlightKeys == {"page", "image_data", "detections"}

\* for detection in page_detections: ...  of _create_target_highlighted_images
\* (for_target) or of _create_highlighted_images: the message of what the
\* first detection raises, <<>> when the page is drawn
page_draw_error(page_detections, for_target) ==
    CASE page_detections.dets = "null" -> <<"'NoneType' object is not iterable">>
      [] page_detections.dets = "number" -> <<"'int' object is not iterable">>
      \* the loop runs over the characters: "position" in "a" is false, and a
      \* string has no get
      [] page_detections.dets = "string" ->
           IF page_detections.ndet = 0 \/ for_target THEN <<>>
           ELSE <<"'str' object has no attribute 'get'">>
      [] OTHER ->
           IF page_detections.ndet = 0 THEN <<>>
           ELSE IF for_target THEN target_detection_error(page_detections.item)
           ELSE highlight_detection_error(page_detections.item)

\* for i, image in enumerate(images): ... highlighted_images.append({...})
RECURSIVE highlight_loop(_, _, _, _, _)
highlight_loop(images, pages, i, highlighted_images, for_target) ==
    IF i >= images THEN Returned(highlighted_images, <<>>)
    ELSE LET page_num == i + 1
             page_detections == pages_data_get(pages, page_num, Len(pages))
         IN  IF page_draw_error(page_detections, for_target) # <<>>
             THEN Raised(page_draw_error(page_detections, for_target), <<>>)
             ELSE highlight_loop(images, pages, i + 1,
                      Append(highlighted_images,
                             [page |-> page_num, keys |-> HighlightKeys,
                              ndet |-> page_detections.ndet]),
                      for_target)

\* a variant that loops over the elements of "pages" rather than the images
_create_highlighted_images_per_element(images, detection_data) ==
    LET pages == IF "pages" \in detection_data.keys THEN detection_data.pages ELSE <<>> IN
    IF "pages" \in detection_data.keys /\ pages_iter_error(detection_data) # <<>>
    THEN Raised(pages_iter_error(detection_data), <<>>)
    ELSE IF pages_data_error(pages, 1) # <<>>
    THEN Raised(pages_data_error(pages, 1), <<>>)
    ELSE highlight_loop(Len(pages), pages, 0, <<>>, FALSE)

\* _create_highlighted_images(images, detection_data)
_create_highlighted_images(images, detection_data) ==
    LET pages == IF "pages" \in detection_data.keys THEN detection_data.pages ELSE <<>> IN
    IF "pages" \in detection_data.keys /\ pages_iter_error(detection_data) # <<>>
    THEN Raised(pages_iter_error(detection_data), <<>>)
    ELSE IF pages_data_error(pages, 1) # <<>>
    THEN Raised(pages_data_error(pages, 1), <<>>)
    ELSE highlight_loop(images, pages, 0, <<>>, FALSE)

\* _create_target_highlighted_images(images, detection_data)
_create_target_highlighted_images(images, detection_data) ==
    LET pages == IF "pages" \in detection_data.keys THEN detection_data.pages ELSE <<>> IN
    IF "pages" \in detection_data.keys /\ pages_iter_error(detection_data) # <<>>
    THEN Raised(pages_iter_error(detection_data), <<>>)
    ELSE IF pages_data_error(pages, 1) # <<>>
    THEN Raised(pages_data_error(pages, 1), <<>>)
    ELSE highlight_loop(images, pages, 0, <<>>, TRUE)

----------------------------------------------------------------------------
(* Requests *)

Reqs == {"r1", "r2"}

AnalysisEndpoints ==
    {"gemini_document_analyze", "analyze_pdf", "gemini_pipe_shaft_detect", "detect_target_image"}
UploadEndpoints == AnalysisEndpoints \cup {"highlight_pdf_with_ai_analysis"}
Endpoints == UploadEndpoints \cup {"hello_world"}

\* the dpi parameter's declared default
default_dpi_analyze_pdf == 300
default_dpi_query == 200
default_dpi(endpoint) ==
    IF endpoint = "analyze_pdf" THEN default_dpi_analyze_pdf ELSE default_dpi_query

\* the dpi value the docstring of analyze_pdf documents as the default
documented_default_dpi_analyze_pdf == 200

DpiParams == {{}, {72}}        \* the query gives no dpi, or gives dpi=72

NoResponse ==
    [status |-> 0, detail |-> <<>>, total_pages |-> 0, dpi |-> 0,
     preview_images |-> <<>>, highlighted_images |-> <<>>, detection_data |-> <<>>,
     has_result |-> FALSE, result |-> JNull, target_image_overview |-> "none",
     total_highlights |-> 0, pages_processed |-> 0,
     gemini_available |-> FALSE, ready |-> FALSE]

IdleFrame ==
    [pc |-> "idle", endpoint |-> "hello_world", filename |-> NoName,
     dpi_param |-> {}, dpi |-> 0, highlight |-> TRUE, model |-> DefaultModel,
     target_given |-> FALSE, debug |-> FALSE,
     reads |-> 0, rasters |-> 0, calls |-> 0,
     images |-> 0, preview_images |-> <<>>, analyzer |-> {},
     target_overview |-> "none",
     page_i |-> 0, all_detection_data |-> <<>>, highlighted_images |-> <<>>,
     coordinates |-> <<>>, annotations |-> <<>>,
     exc |-> <<>>, failed_at |-> "", caught |-> <<>>,
     response |-> NoResponse]

\* raise HTTPException(status_code, detail) reaching the framework
http_error(f, status_code, detail) ==
    [f EXCEPT !.pc = "done",
              !.response = [NoResponse EXCEPT !.status = status_code, !.detail = detail]]

----------------------------------------------------------------------------
(* Entry checks of the handlers *)

\* a variant that accepts any name with ".pdf" somewhere in it
filename_rejected_contains(endpoint, filename) ==
    IF endpoint \in {"highlight_pdf_with_ai_analysis", "analyze_pdf"}
    THEN ~truthy_name(filename) \/ ~Contains(filename.s, DotPdf)
    ELSE ~truthy_name(filename) \/ ~Contains(str_lower(filename.s), DotPdf)

\* the file name test each upload handler applies
\*   src/main.py:65, src/src/main.py:193      not filename or not filename.endswith(".pdf")
\*   src/src/main.py:107, 389, 547            ... filename.lower().endswith(".pdf")
filename_rejected(endpoint, filename) ==
    IF endpoint \in {"highlight_pdf_with_ai_analysis", "analyze_pdf"}
    THEN ~truthy_name(filename) \/ ~endswith(filename.s, DotPdf)
    ELSE ~truthy_name(filename) \/ ~endswith(str_lower(filename.s), DotPdf)

unavailable_detail(endpoint) ==
    IF endpoint = "analyze_pdf" THEN MsgUnavailableLong ELSE MsgUnavailable

\* a variant that tests the file name before the availability flag
entry_checks_name_first(f, available) ==
    IF filename_rejected(f.endpoint, f.filename)
    THEN http_error(f, 400, MsgOnlyPdf)
    ELSE IF f.endpoint \in AnalysisEndpoints /\ ~available
    THEN http_error(f, 503, unavailable_detail(f.endpoint))
    ELSE [f EXCEPT !.pc = "read"]

\* the statements of an upload handler before its try block
entry_checks(f, available) ==
    IF f.endpoint \in AnalysisEndpoints /\ ~available
    THEN http_error(f, 503, unavailable_detail(f.endpoint))
    ELSE IF filename_rejected(f.endpoint, f.filename)
    THEN http_error(f, 400, MsgOnlyPdf)
    ELSE [f EXCEPT !.pc = "read"]

\* GET / : the dict display reads gemini_available and grok_available; a name
\* that is not bound at module level raises NameError, which no handler
\* catches, and the framework answers 500
hello_world(f, available, globals) ==
    IF ~({"gemini_available", "grok_available"} \subseteq globals)
    THEN http_error(f, 500, <<"Internal Server Error">>)
    ELSE [f EXCEPT !.pc = "done",
                   !.response = [NoResponse EXCEPT !.status = 200,
                                                   !.gemini_available = available,
                                                   !.ready = available]]

----------------------------------------------------------------------------
(* The except clauses that close each handler's try block *)

error_prefix(endpoint) ==
    IF endpoint \in {"analyze_pdf", "highlight_pdf_with_ai_analysis"}
    THEN <<"Error processing PDF: ">>
    ELSE <<"Error analyzing PDF with Gemini: ">>

\* a variant whose 500 carries the prefix only, without str(e)
handler_except_no_message(f, e) ==
    IF e.http /\ f.endpoint \in {"gemini_document_analyze", "gemini_pipe_shaft_detect",
                                  "detect_target_image"}
    THEN http_error(f, e.status_code, e.msg)
    ELSE http_error(f, 500, error_prefix(f.endpoint))

\* gemini_document_analyze, gemini_pipe_shaft_detect, detect_target_image:
\*     except HTTPException: raise
\*     except Exception as e: raise HTTPException(500, prefix + str(e))
\* analyze_pdf, highlight_pdf_with_ai_analysis: only the second clause, and
\* HTTPException is an Exception
handler_except(f, e) ==
    IF e.http /\ f.endpoint \in {"gemini_document_analyze", "gemini_pipe_shaft_detect",
                                  "detect_target_image"}
    THEN http_error(f, e.status_code, e.msg)
    ELSE http_error(f, 500, error_prefix(f.endpoint) \o str_exc(e))

\* _create_image_previews: one entry {page, image_data} per image, pages from 1

\* an exception e is raised inside the handler's try block, at the step the
\* frame is at: exc keeps str(e), failed_at the step
raise_in_try(f, e) ==
    handler_except([f EXCEPT !.exc = str_exc(e), !.failed_at = f.pc], e)

RECURSIVE preview_loop(_, _, _)
preview_loop(images, i, preview_images) ==
    IF i >= images THEN preview_images
    ELSE preview_loop(images, i + 1,
             Append(preview_images, [page |-> i + 1, keys |-> {"page", "image_data"}, ndet |-> 0]))

_create_image_previews(images) == preview_loop(images, 0, <<>>)

\* analyze_pdf lines 227-234: the constructor's failure is re-raised as an
\* HTTPException inside the handler's try block
init_model(f, res) ==
    IF ~res.raised
    THEN [f EXCEPT !.analyzer = res.analyzer,
                   !.pc = IF f.endpoint = "analyze_pdf" THEN "describe" ELSE "analyze"]
    ELSE IF f.endpoint = "analyze_pdf"
    THEN raise_in_try(f, HTTPException(500,
             <<"Failed to initialize model ", f.model, ": ">> \o res.msg))
    ELSE raise_in_try(f, Exc(res.msg))

\* analyze_pdf lines 236-246: a failure to describe the target image is kept
\* in target_overview and the request goes on
describe_step(f, res) ==
    [f EXCEPT !.calls = @ + Len(res.calls),
              !.caught = IF res.raised THEN res.msg ELSE <<>>,
              !.target_overview = IF res.raised THEN "error" ELSE "described",
              !.pc = "pages"]

\* the entry of all_detection_data for a detection result: whether it has the
\* keys "error" and "_debug", and the length of its detections
detection_entry(detection_data) ==
    [error |-> "error" \in detection_data.keys,
     debug |-> "_debug" \in detection_data.keys,
     ndet |-> IF "detections" \in detection_data.keys THEN detection_data.ndet ELSE 0]

\* lines 278-285: the entry of highlighted_images for a page without error
highlighted_entry(page, detection_data) ==
    [page |-> page, keys |-> {"page", "image_data", "detections", "summary"},
     ndet |-> IF "detections" \in detection_data.keys THEN detection_data.ndet ELSE 0]

\* a variant of the loop body that drops a page whose detection result has an
\* "error" key instead of appending {page, error}
page_step_skip_error(f, res) ==
    LET g == [f EXCEPT !.calls = @ + Len(res.calls)]
        page == f.page_i + 1
    IN
    IF res.raised THEN raise_in_try(g, Exc(res.msg))
    ELSE LET detection_data == res.v
             h == [g EXCEPT !.all_detection_data = Append(@, detection_entry(detection_data))]
             k == [h EXCEPT !.highlighted_images = Append(@, highlighted_entry(page, detection_data))]
         IN
         IF "error" \in detection_data.keys
         THEN [h EXCEPT !.page_i = page]
         ELSE IF create_highlighted_image_raises(detection_data)
         THEN raise_in_try(h, Exc(create_highlighted_image_error(detection_data)))
         ELSE IF page_count_raises(detection_data)
         THEN raise_in_try(k, Exc(page_count_error(detection_data)))
         ELSE [k EXCEPT !.page_i = page]

\* analyze_pdf lines 252-318: the body of the loop for page page_i + 1, given
\* what analyze_symbol_with_coordinates did.  The result is appended to
\* all_detection_data (265); without an "error" key the highlights are drawn
\* (269-271, which raises on a detection that is no dict), the page is
\* appended to highlighted_images (278-285) and only then the page count is
\* read (292-295), which can raise
page_step(f, res) ==
    LET g == [f EXCEPT !.calls = @ + Len(res.calls)]
        page == f.page_i + 1
    IN
    IF res.raised THEN raise_in_try(g, Exc(res.msg))
    ELSE LET detection_data == res.v
             h == [g EXCEPT !.all_detection_data = Append(@, detection_entry(detection_data))]
             k == [h EXCEPT !.highlighted_images = Append(@, highlighted_entry(page, detection_data))]
         IN
         IF "error" \in detection_data.keys
         THEN [h EXCEPT !.highlighted_images =
                            Append(@, [page |-> page, keys |-> {"page", "error"}, ndet |-> 0]),
                        !.page_i = page]
         ELSE IF create_highlighted_image_raises(detection_data)
         THEN raise_in_try(h, Exc(create_highlighted_image_error(detection_data)))
         ELSE IF page_count_raises(detection_data)
         THEN raise_in_try(k, Exc(page_count_error(detection_data)))
         ELSE [k EXCEPT !.page_i = page]

\* analyze_pdf lines 343-358: the response
analyze_pdf_response(f) ==
    [f EXCEPT !.pc = "done",
              !.response = [NoResponse EXCEPT
                  !.status = 200,
                  !.total_pages = f.images,
                  !.preview_images = f.preview_images,
                  !.dpi = f.dpi,
                  !.highlighted_images = f.highlighted_images,
                  !.detection_data = f.all_detection_data,
                  !.target_image_overview = f.target_overview]]

\* a variant that draws highlights only when the result's "pages" list is not
\* empty
analysis_response_nonempty_pages(f, res) ==
    LET g == [f EXCEPT !.calls = @ + Len(res.calls), !.rasters = @ + res.rasters] IN
    IF res.raised THEN raise_in_try(g, Exc(res.msg))
    ELSE LET result_json == res.v
             hl == IF ~(is_dict(result_json) /\ "pages" \in result_json.keys
                        /\ result_json.pages # <<>>)
                   THEN Returned(<<>>, <<>>)
                   ELSE IF f.endpoint = "detect_target_image"
                   THEN _create_target_highlighted_images(f.images, result_json)
                   ELSE _create_highlighted_images(f.images, result_json)
         IN  IF hl.raised THEN raise_in_try(g, Exc(hl.msg))
             ELSE [g EXCEPT !.pc = "done",
                            !.highlighted_images = hl.v,
                            !.response = [NoResponse EXCEPT
                                !.status = 200,
                                !.has_result = TRUE,
                                !.result = result_json,
                                !.preview_images = f.preview_images,
                                !.highlighted_images = hl.v,
                                !.total_pages = f.images]]

\* gemini_document_analyze lines 121-140, gemini_pipe_shaft_detect lines
\* 403-421, detect_target_image lines 569-592: from the analyzer's result to
\* the response
analysis_response(f, res) ==
    LET g == [f EXCEPT !.calls = @ + Len(res.calls), !.rasters = @ + res.rasters] IN
    IF res.raised THEN raise_in_try(g, Exc(res.msg))
    ELSE LET result_json == res.v
             hl == IF ~(is_dict(result_json) /\ "pages" \in result_json.keys)
                   THEN Returned(<<>>, <<>>)
                   ELSE IF f.endpoint = "detect_target_image"
                   THEN _create_target_highlighted_images(f.images, result_json)
                   ELSE _create_highlighted_images(f.images, result_json)
         IN  IF hl.raised THEN raise_in_try(g, Exc(hl.msg))
             ELSE [g EXCEPT !.pc = "done",
                            !.highlighted_images = hl.v,
                            !.response = [NoResponse EXCEPT
                                !.status = 200,
                                !.has_result = TRUE,
                                !.result = result_json,
                                !.preview_images = f.preview_images,
                                !.highlighted_images = hl.v,
                                !.total_pages = f.images]]

----------------------------------------------------------------------------
(* The annotation prototype: src/main.py                                    *)

MinHighlightsPerPage == 1
MaxHighlightsPerPage == 5

\* simulate_ai_analysis: for each page, highlights_per_page coordinates on that
\* page (0-based page index); counts[page_num + 1] is random.randint(1, 5)
RECURSIVE simulate_ai_analysis(_, _, _, _)
simulate_ai_analysis(pages_count, counts, page_num, coordinates) ==
    IF page_num >= pages_count THEN coordinates
    ELSE simulate_ai_analysis(pages_count, counts, page_num + 1,
             coordinates \o [k \in 1..counts[page_num + 1] |-> [page |-> page_num]])

\* lines 79-91: for coord in coordinates: pdf_doc[coord.page].add_highlight_annot(...)
\* annotations lists, in order, the page of each annotation added
RECURSIVE add_highlight_annots(_, _, _)
add_highlight_annots(coordinates, i, annotations) ==
    IF i > Len(coordinates) THEN annotations
    ELSE add_highlight_annots(coordinates, i + 1, Append(annotations, coordinates[i].page))

\* a variant whose X-Total-Highlights header reports the number of pages
highlight_pdf_response_pages(f) ==
    [f EXCEPT !.pc = "done",
              !.response = [NoResponse EXCEPT !.status = 200,
                                              !.total_highlights = f.images,
                                              !.pages_processed = f.images]]

\* lines 93-111: the annotated document is saved and returned
highlight_pdf_response(f) ==
    [f EXCEPT !.pc = "done",
              !.response = [NoResponse EXCEPT !.status = 200,
                                              !.total_highlights = Len(f.coordinates),
                                              !.pages_processed = f.images]]

----------------------------------------------------------------------------
(* What the hosted model may answer                                        *)

\* detections with unexpected contents, as items of a "pages" entry: position
\* a number, x null, x and y strings under a "type" key, target a number,
\* target and type null, a target that is neither PF100 nor PF150 with
\* position a number, a position without y, and a position that is a list, a
\* string without "x", a string with "x" and "y"
OddPageDets ==
    { Det("PF100", "absent", PositionScalar("number"), "absent"),
      Det("PF100", "absent", Position("null", "number"), "absent"),
      Det("absent", "PF150", Position("string", "string"), "absent"),
      Det("number", "absent", NoPosition, "absent"),
      Det("null", "null", NoPosition, "absent"),
      Det("other", "absent", PositionScalar("number"), "absent"),
      Det("", "PF150", Position("number", "absent"), "absent"),
      Det("PF100", "absent", PositionScalar("list"), "absent"),
      Det("PF150", "absent", PositionScalar("string"), "absent"),
      Det("PF100", "absent", PositionScalar("string_xy"), "absent") }

\* ... and of a detection result of one page: symbol_bbox of four strings, of
\* four nulls, of two numbers
OddBboxDets ==
    { Det("absent", "absent", NoPosition, "strings"),
      Det("absent", "absent", NoPosition, "nulls"),
      Det("absent", "absent", NoPosition, "short") }

\* elements of "pages" with well-formed detections
GoodPageEntries ==
    { PageEntry("ok", p, GoodDet, d) : p \in 0..(MaxPages + 1), d \in 0..MaxDet }

\* elements of "pages" that are malformed or hold a detection with unexpected
\* contents
OddPageEntries ==
    { PageEntry("ok", p, DetNumber, 1) : p \in 0..(MaxPages + 1) }
    \cup { PageEntry("ok", 1, det, 1) : det \in OddPageDets }
    \cup { PageEntry("no_page", 0, GoodDet, 0), PageEntry("no_detections", 1, GoodDet, 0),
           PageEntry("not_dict", 0, GoodDet, 0), PageEntry("unhashable_page", 0, GoodDet, 0) }
    \cup { PageEntryNoList(1, "null", 0), PageEntryNoList(1, "number", 0),
           PageEntryNoList(1, "string", 2), PageEntryNoList(MaxPages + 1, "null", 0) }

PageEntries == GoodPageEntries \cup OddPageEntries

\* "pages" lists of a reply to a request: empty or one entry
ReplyPageLists == {<<>>} \cup { <<e>> : e \in GoodPageEntries }

\* values a reply to a PDF analysis may carry
ReplyPagesValues ==
    {JNull, JList, JScalar}
    \cup { PagesDict(K, 0, <<>>, <<>>) : K \in (SUBSET {"summary", "pages", "other"}) \ {{"summary", "pages"}, {"summary", "pages", "other"}} }
    \cup { PagesDict({"summary", "pages"}, t, <<>>, pl) : t \in 0..MaxDet, pl \in ReplyPageLists }
    \cup { PagesDict({"summary", "pages"}, 0, <<>>, <<e>>) : e \in OddPageEntries }
    \cup { PagesNoList(k) : k \in {"null", "number", "string"} }

\* values a reply to a symbol detection may carry
ReplyDetValues ==
    {JNull, JList, JScalar}
    \cup { DetDict({}, GoodDet, 0, "dict_total") }
    \cup { DetDict(K \cup {"detections"}, GoodDet, d, sm) :
             K \in SUBSET {"error", "summary"}, d \in 0..MaxDet, sm \in SummaryKinds }
    \cup { DetDict(K \cup {"detections"}, det, 1, sm) :
             K \in SUBSET {"error", "summary"}, det \in {DetNumber} \cup OddBboxDets,
             sm \in SummaryKinds }

NoParts == <<>>
JsonPart(v) == [mime_json |-> TRUE, data_kind |-> "bytes", data |-> TxtJson(v)]

\* the response objects that carry the value v: as response.parsed and text
\* (structured output), as text only, as an inline json part, or not at all
ResponsesCarrying(v) ==
    { [parsed |-> ParsedNone, parts |-> NoParts, text |-> TxtJson(v)],
      [parsed |-> ParsedNone, parts |-> <<JsonPart(v)>>, text |-> TxtNone],
      [parsed |-> ParsedNone, parts |-> NoParts, text |-> TxtGarbage] }
    \cup (IF v.kind \in {"dict", "list"}
          THEN { [parsed |-> [kind |-> "value", v |-> v], parts |-> NoParts, text |-> TxtJson(v)] }
          ELSE {})

Outcomes(values) ==
    { CallRaises(<<"503 UNAVAILABLE">>) }
    \cup { CallGives(rsp) : rsp \in UNION { ResponsesCarrying(v) : v \in values } }

----------------------------------------------------------------------------
(* Actions *)

\* a variant in which a handler, as the startup code does, keeps the analyzer
\* it built in the module-level gemini_analyzer and records in gemini_available
\* whether building it succeeded
module_state_after_shared(available, analyzer, f) ==
    [gemini_available |-> IF f.failed_at = "init" THEN FALSE
                          ELSE IF f.analyzer # {} THEN TRUE ELSE available,
     gemini_analyzer |-> IF f.analyzer # {} THEN f.analyzer ELSE analyzer]

\* the module-level names after a handler step that leaves the frame f: no
\* handler has a global statement, so they keep their values
module_state_after(available, analyzer, f) ==
    [gemini_available |-> available, gemini_analyzer |-> analyzer]

\* a step of the handler of request r, which leaves its frame as f
HandlerStep(r, f) ==
    /\ req' = [req EXCEPT ![r] = f]
    /\ gemini_available' = module_state_after(gemini_available, gemini_analyzer, f).gemini_available
    /\ gemini_analyzer' = module_state_after(gemini_available, gemini_analyzer, f).gemini_analyzer
    /\ UNCHANGED <<env, call>>

\* the request passed the availability and file name checks of its handler
passed_checks(f) == f.pc \notin {"idle", "entry"} /\ f.response.status \notin {400, 503}

\* the frame of a request as the framework enters the handler: the parameters
\* and their declared defaults
bind_parameters(e, fn, dp, hl, m, tg, dbg) ==
    [IdleFrame EXCEPT !.pc = "entry", !.endpoint = e, !.filename = fn,
                      !.dpi_param = dp,
                      !.dpi = IF dp = {} THEN default_dpi(e) ELSE CHOOSE d \in dp : TRUE,
                      !.highlight = hl, !.model = m, !.target_given = tg, !.debug = dbg]

\* the parameters each endpoint takes
takes_parameters(e, fn, dp, hl, m, tg, dbg) ==
    /\ (e = "hello_world") => (fn = NoName /\ dp = {} /\ hl /\ m = DefaultModel /\ ~tg)
    /\ (e \notin AnalysisEndpoints) => ~dbg
    /\ (e \notin {"analyze_pdf", "detect_target_image"}) => ~tg
    /\ (e # "analyze_pdf") => hl
    /\ (e = "highlight_pdf_with_ai_analysis") => (dp = {} /\ m = DefaultModel)

\* a request arrives
StartWith(r, filenames, dpi_params, models, targets, debugs) ==
    /\ req[r].pc = "idle"
    /\ \E e \in Endpoints, fn \in filenames, dp \in dpi_params, hl \in BOOLEAN,
          m \in models, tg \in targets, dbg \in debugs :
         /\ takes_parameters(e, fn, dp, hl, m, tg, dbg)
         /\ HandlerStep(r, bind_parameters(e, fn, dp, hl, m, tg, dbg))

\* GET / answers; an upload handler runs the statements before its try block
Entry(r) ==
    /\ req[r].pc = "entry"
    /\ HandlerStep(r, IF req[r].endpoint = "hello_world"
                      THEN hello_world(req[r], gemini_available, ModuleGlobals)
                      ELSE entry_checks(req[r], gemini_available))

\* pdf_bytes = await file.read()
Read(r) ==
    /\ req[r].pc = "read"
    /\ \E ok \in BOOLEAN :
         LET f == [req[r] EXCEPT !.reads = @ + 1] IN
         HandlerStep(r, IF ~ok THEN raise_in_try(f, Exc(<<"upload read failed">>))
                        ELSE [f EXCEPT !.pc = IF f.endpoint = "highlight_pdf_with_ai_analysis"
                                              THEN "open" ELSE "convert"])

\* images = convert_from_bytes(pdf_bytes, dpi=dpi); preview_images = _create_image_previews(images)
ConvertWith(r, page_counts) ==
    /\ req[r].pc = "convert"
    /\ \E ok \in BOOLEAN, n \in page_counts :
         LET f == [req[r] EXCEPT !.rasters = @ + 1] IN
         HandlerStep(r, IF ~ok THEN raise_in_try(f, Exc(<<"Unable to get page count.">>))
                        ELSE [f EXCEPT !.images = n,
                                       !.preview_images = _create_image_previews(n),
                                       !.pc = IF f.target_given THEN "target" ELSE "init"])

\* target_bytes = await target_image.read(); custom_target_image = Image.open(...)
ReadTarget(r) ==
    /\ req[r].pc = "target"
    /\ \E ok \in BOOLEAN :
         LET f == [req[r] EXCEPT !.reads = @ + 1] IN
         HandlerStep(r, IF ~ok THEN raise_in_try(f, Exc(<<"cannot identify image file">>))
                        ELSE [f EXCEPT !.pc = "init"])

\* GeminiImageAnalyzer(model_name=model): a new analyzer for this request
InitModel(r) ==
    /\ req[r].pc = "init"
    /\ \E client_ok \in BOOLEAN :
         HandlerStep(r, init_model(req[r], analyzer_init(env, client_ok, req[r].model)))

\* target_overview = await model_analyzer.describe_target_image(custom_target_image)
Describe(r) ==
    /\ req[r].pc = "describe"
    /\ HandlerStep(r, describe_step(req[r],
                          describe_target_image(req[r].target_given, env.target_png)))

\* one iteration of the loop over the page images (o1 and o2 are the outcomes
\* of the call with the schema and of the call without it, which is made only
\* when the first raised: o2 = o1 stands for no second call)
PageWith(r, outcomes) ==
    /\ req[r].pc = "pages"
    /\ req[r].highlight
    /\ req[r].page_i < req[r].images
    /\ \E o2 \in outcomes :
       \E o1 \in {o2} \cup { o \in outcomes : o.raised } :
         /\ HandlerStep(r, page_step(req[r], analyze_symbol_with_coordinates(
                                         req[r].target_given, env.target_png, o1, o2,
                                         req[r].debug)))

\* the loop is over (or highlight is false): the response is built
Respond(r) ==
    /\ req[r].pc = "pages"
    /\ ~req[r].highlight \/ req[r].page_i >= req[r].images
    /\ HandlerStep(r, analyze_pdf_response(req[r]))

\* result_json = await analyzer.<method>(...), the highlights, the response
AnalyzeWith(r, outcomes) ==
    /\ req[r].pc = "analyze"
    /\ \E o2 \in outcomes, raster_ok \in BOOLEAN :
       \E o1 \in {o2} \cup { o \in outcomes : o.raised } :
         /\ (req[r].endpoint # "detect_target_image") => raster_ok
         /\ HandlerStep(r, analysis_response(req[r],
                CASE req[r].endpoint = "gemini_document_analyze" ->
                         analyze_pdf_document(o1, o2, req[r].debug)
                  [] req[r].endpoint = "gemini_pipe_shaft_detect" ->
                         analyze_pipe_shafts(o1, o2, req[r].debug)
                  [] OTHER -> detect_target_image_in_pdf(
                                  req[r].target_given, env.target_png, raster_ok, o1, o2,
                                  req[r].debug)))

\* pdf_doc = fitz.open(...); coordinates = simulate_ai_analysis(pdf_doc)
OpenWith(r, page_counts) ==
    /\ req[r].pc = "open"
    /\ \E ok \in BOOLEAN, n \in page_counts :
       \E counts \in [1..n -> MinHighlightsPerPage..MaxHighlightsPerPage] :
         HandlerStep(r, IF ~ok THEN raise_in_try(req[r], Exc(<<"Failed to open stream">>))
                        ELSE [req[r] EXCEPT !.images = n,
                                            !.coordinates = simulate_ai_analysis(n, counts, 0, <<>>),
                                            !.pc = "annotate"])

\* lines 79-94: the annotations are added one by one, the document is saved
\* and returned.  When add_highlight_annot, set_colors, update or save raises,
\* the annotations of the first k coordinates have been added (k = 0: the first
\* add_highlight_annot raised; k = all: save raised)
Annotate(r) ==
    /\ req[r].pc = "annotate"
    /\ \E ok \in BOOLEAN, k \in 0..Len(req[r].coordinates) :
         LET f == [req[r] EXCEPT !.annotations =
                       add_highlight_annots(SubSeq(req[r].coordinates, 1, k), 1, <<>>)] IN
         /\ ok => k = Len(req[r].coordinates)
         /\ HandlerStep(r, IF ~ok THEN raise_in_try(f, Exc(<<"annotation failed">>))
                           ELSE highlight_pdf_response(f))

----------------------------------------------------------------------------
(* One request at a time, with every parameter and every reply of the model *)

Environments ==
    [GEMINI_API_KEY : ApiKeys, client_ok : BOOLEAN, target_png : BOOLEAN]

NoCall == [fn |-> "none", pc |-> "none"]

InitOf(ids) ==
    /\ env \in Environments
    /\ gemini_available = startup_available(env)
    /\ gemini_analyzer = startup_analyzer(env)
    /\ req = [r \in ids |-> IdleFrame]
    /\ call = NoCall

Init == InitOf({"r1"})

Start(r) == StartWith(r, Filenames, DpiParams, Models, BOOLEAN, BOOLEAN)
Convert(r) == ConvertWith(r, 0..MaxPages)
Page(r) == PageWith(r, Outcomes(ReplyDetValues))
Analyze(r) == AnalyzeWith(r, Outcomes(ReplyPagesValues))
Open(r) == OpenWith(r, 1..MaxPages)

Next ==
    \/ \E r \in DOMAIN req : Start(r)
    \/ \E r \in DOMAIN req : Entry(r)
    \/ \E r \in DOMAIN req : Read(r)
    \/ \E r \in DOMAIN req : Convert(r)
    \/ \E r \in DOMAIN req : ReadTarget(r)
    \/ \E r \in DOMAIN req : InitModel(r)
    \/ \E r \in DOMAIN req : Describe(r)
    \/ \E r \in DOMAIN req : Page(r)
    \/ \E r \in DOMAIN req : Respond(r)
    \/ \E r \in DOMAIN req : Analyze(r)
    \/ \E r \in DOMAIN req : Open(r)
    \/ \E r \in DOMAIN req : Annotate(r)

Spec == Init /\ [][Next]_vars

----------------------------------------------------------------------------
(* Two requests in flight, their steps interleaved.  The parameters and the *)
(* replies are drawn from smaller sets than in Spec.                        *)

ConcFilenames == { NoName, Name(<<"a", ".", "p", "d", "f">>), Name(<<"a", ".", "t", "x", "t">>) }
ConcDetValues ==
    { JNull, DetDict({"detections", "summary"}, GoodDet, 1, "dict_total"),
      DetDict({"error"}, GoodDet, 0, "dict_total") }
ConcPagesValues ==
    { JNull, PagesDict({"summary", "pages"}, 1, <<>>, <<PageEntry("ok", 1, GoodDet, 1)>>) }
ConcResponses(values) ==
    { [parsed |-> ParsedNone, parts |-> NoParts, text |-> TxtJson(v)] : v \in values }
ConcOutcomes(values) ==
    { CallRaises(<<"503 UNAVAILABLE">>) } \cup { CallGives(rsp) : rsp \in ConcResponses(values) }

InitConc == InitOf(Reqs) /\ env.target_png

StartConc(r) == StartWith(r, ConcFilenames, {{}}, Models, {FALSE}, {FALSE})
ConvertConc(r) == ConvertWith(r, {1})
PageConc(r) == PageWith(r, ConcOutcomes(ConcDetValues))
AnalyzeConc(r) == AnalyzeWith(r, ConcOutcomes(ConcPagesValues))
OpenConc(r) == OpenWith(r, {1})

NextConc ==
    \/ \E r \in DOMAIN req : StartConc(r)
    \/ \E r \in DOMAIN req : Entry(r)
    \/ \E r \in DOMAIN req : Read(r)
    \/ \E r \in DOMAIN req : ConvertConc(r)
    \/ \E r \in DOMAIN req : InitModel(r)
    \/ \E r \in DOMAIN req : Describe(r)
    \/ \E r \in DOMAIN req : PageConc(r)
    \/ \E r \in DOMAIN req : Respond(r)
    \/ \E r \in DOMAIN req : AnalyzeConc(r)
    \/ \E r \in DOMAIN req : OpenConc(r)
    \/ \E r \in DOMAIN req : Annotate(r)

SpecConc == InitConc /\ [][NextConc]_vars

----------------------------------------------------------------------------
(* The compositor functions applied to page images and detection data      *)

\* the "pages" lists of up to MaxEntries entries
PageLists == UNION { [1..k -> PageEntries] : k \in 0..MaxEntries }

CompositorData ==
    { PagesDict({"summary", "pages"}, 0, <<>>, pl) : pl \in PageLists }
    \cup { PagesDict({"summary"}, 0, <<>>, <<>>) }
    \cup { PagesNoList(k) : k \in {"null", "number", "string"} }

NoResult == Returned(<<>>, <<>>)

CompositorCalls ==
    { [fn |-> "_create_image_previews", pc |-> "ready", images |-> n,
       detection_data |-> PagesDict({}, 0, <<>>, <<>>), result |-> NoResult] : n \in 0..MaxPages }
    \cup { [fn |-> fn, pc |-> "ready", images |-> n, detection_data |-> d, result |-> NoResult] :
             fn \in {"_create_highlighted_images", "_create_target_highlighted_images"},
             n \in 0..MaxPages, d \in CompositorData }

InitFn(calls) ==
    /\ env = [GEMINI_API_KEY |-> "set", client_ok |-> TRUE, target_png |-> TRUE]
    /\ gemini_available = startup_available(env)
    /\ gemini_analyzer = startup_analyzer(env)
    /\ req = [r \in {} |-> IdleFrame]
    /\ call \in calls

Apply(fn, result) ==
    /\ call.fn = fn
    /\ call.pc = "ready"
    /\ call' = [call EXCEPT !.pc = "done", !.result = result]
    /\ UNCHANGED <<env, gemini_available, gemini_analyzer, req>>

CreateImagePreviews ==
    Apply("_create_image_previews", Returned(_create_image_previews(call.images), <<>>))

CreateHighlightedImages ==
    Apply("_create_highlighted_images",
          _create_highlighted_images(call.images, call.detection_data))

CreateTargetHighlightedImages ==
    Apply("_create_target_highlighted_images",
          _create_target_highlighted_images(call.images, call.detection_data))

InitCompositor == InitFn(CompositorCalls)

NextCompositor ==
    \/ CreateImagePreviews
    \/ CreateHighlightedImages
    \/ CreateTargetHighlightedImages

SpecCompositor == InitCompositor /\ [][NextCompositor]_vars

----------------------------------------------------------------------------
(* The PDF analysis methods applied to the replies of the model             *)

\* the values the channels of a response carry in these calls
FnDictA == PagesDict({"summary", "pages"}, 1, <<>>, <<>>)
FnDictB == PagesDict({"summary", "pages"}, 0, <<>>, <<PageEntry("ok", 1, GoodDet, 1)>>)
FnValues ==
    { JNull, JList, JScalar, PagesDict({}, 0, <<>>, <<>>), PagesDict({"summary"}, 0, <<>>, <<>>),
      PagesDict({"pages", "other"}, 0, <<>>, <<>>), FnDictA, FnDictB }

FnTexts == { TxtNone, TxtBlank, TxtGarbage } \cup { TxtJson(v) : v \in FnValues }

FnParsed ==
    { ParsedNone, [kind |-> "pydantic_raises", v |-> JNull], [kind |-> "other", v |-> JNull] }
    \cup { [kind |-> "pydantic", v |-> v] : v \in FnValues }
    \cup { [kind |-> "value", v |-> v] : v \in { w \in FnValues : w.kind \in {"dict", "list"} } }

FnParts ==
    { <<>> }
    \cup { << [mime_json |-> mj, data_kind |-> dk, data |-> d] >> :
             mj \in BOOLEAN, dk \in InlineDataKinds,
             d \in { TxtGarbage, TxtJson(JNull), TxtJson(FnDictA), TxtJson(FnDictB),
                     TxtJson(PagesDict({"summary"}, 0, <<>>, <<>>)) } }

FnResponses == [parsed : FnParsed, parts : FnParts, text : FnTexts]

FnOutcomes == { CallRaises(<<"503 UNAVAILABLE">>) } \cup { CallGives(rsp) : rsp \in FnResponses }

\* o2 is the reply to the second call, made only when the first raised
FnOutcomePairs ==
    { <<o, o>> : o \in FnOutcomes } \cup { <<CallRaises(<<"400 INVALID_ARGUMENT">>), o>> : o \in FnOutcomes }

AnalyzerCalls ==
    { [fn |-> fn, pc |-> "ready", o1 |-> oo[1], o2 |-> oo[2], custom_target |-> TRUE,
       target_png |-> TRUE, raster_ok |-> TRUE, debug |-> dbg, result |-> NoResult] :
         fn \in {"analyze_pdf_document", "analyze_pipe_shafts", "detect_target_image_in_pdf"},
         oo \in FnOutcomePairs, dbg \in BOOLEAN }
    \cup { [fn |-> "detect_target_image_in_pdf", pc |-> "ready", o1 |-> oo[1], o2 |-> oo[2],
            custom_target |-> ct, target_png |-> tp, raster_ok |-> ro, debug |-> dbg,
            result |-> NoResult] :
              ct \in BOOLEAN, tp \in BOOLEAN, ro \in BOOLEAN, dbg \in BOOLEAN,
              oo \in { <<CallGives([parsed |-> ParsedNone, parts |-> <<>>, text |-> t]),
                         CallGives([parsed |-> ParsedNone, parts |-> <<>>, text |-> t])>> :
                         t \in FnTexts } }

AnalyzePdfDocument ==
    Apply("analyze_pdf_document", analyze_pdf_document(call.o1, call.o2, call.debug))

AnalyzePipeShafts ==
    Apply("analyze_pipe_shafts", analyze_pipe_shafts(call.o1, call.o2, call.debug))

DetectTargetImageInPdf ==
    Apply("detect_target_image_in_pdf",
          detect_target_image_in_pdf(call.custom_target, call.target_png, call.raster_ok,
                                     call.o1, call.o2, call.debug))

InitAnalyzer == InitFn(AnalyzerCalls)

NextAnalyzer ==
    \/ AnalyzePdfDocument
    \/ AnalyzePipeShafts
    \/ DetectTargetImageInPdf

SpecAnalyzer == InitAnalyzer /\ [][NextAnalyzer]_vars

----------------------------------------------------------------------------
(* The text fallbacks of the model client: gemini.py lines 877-978.  A text *)
(* is a sequence of one-character tokens; "phi" and "PHI" stand for the     *)
(* small and the capital Greek letter phi.                                  *)

MaxText == 3        \* characters of a response text (0..MaxText)
MaxKeywords == 2    \* keywords in target_texts (0..MaxKeywords)

\* str.upper(), on the characters the texts of the model use
upper_char(c) ==
    CASE c = "p" -> "P"
      [] c = "f" -> "F"
      [] c = "x" -> "X"
      [] c = "phi" -> "PHI"
      [] OTHER -> c

str_upper(s) == [i \in 1..Len(s) |-> upper_char(s[i])]

\* str.count(sub) and len(re.findall(literal, s)): the non-overlapping
\* occurrences of sub in s from position i on, left to right; an empty sub
\* occurs len(s) + 1 times
RECURSIVE count_from(_, _, _)
count_from(s, sub, i) ==
    IF sub = <<>> THEN Len(s) - i + 2
    ELSE IF i + Len(sub) - 1 > Len(s) THEN 0
    ELSE IF SubSeq(s, i, i + Len(sub) - 1) = sub
    THEN 1 + count_from(s, sub, i + Len(sub))
    ELSE count_from(s, sub, i + 1)

\* the same, ignoring case (re.IGNORECASE; upper() on both sides)
count_ignorecase(s, sub) == count_from(str_upper(s), str_upper(sub), 1)

\* re.escape(text.replace(phi, "[" phi PHI "]")): the pattern matches the
\* text literally, with the four characters [ phi PHI ] in place of each phi
RECURSIVE escaped_pattern(_, _)
escaped_pattern(text, i) ==
    IF i > Len(text) THEN <<>>
    ELSE (IF text[i] = "phi" THEN <<"[", "phi", "PHI", "]">> ELSE <<text[i]>>)
         \o escaped_pattern(text, i + 1)

Digits == {"0", "1", "2", "3", "4", "5", "6", "7", "8", "9"}

\* the digits of text from position i on
RECURSIVE digit_run(_, _)
digit_run(text, i) ==
    IF i > Len(text) \/ text[i] \notin Digits THEN <<>>
    ELSE <<text[i]>> \o digit_run(text, i + 1)

\* re.search(r"PF(\d+)", text, re.IGNORECASE): group(1) of the first match
RECURSIVE pf_number(_, _)
pf_number(text, i) ==
    IF i + 2 > Len(text) THEN [found |-> FALSE, number |-> <<>>]
    ELSE IF /\ upper_char(text[i]) = "P"
            /\ upper_char(text[i + 1]) = "F"
            /\ text[i + 2] \in Digits
    THEN [found |-> TRUE, number |-> digit_run(text, i + 2)]
    ELSE pf_number(text, i + 1)

\* text.lower().replace(phi, "phi").replace(PHI, "phi") + "_count"
RECURSIVE lower_phi(_, _)
lower_phi(text, i) ==
    IF i > Len(text) THEN <<>>
    ELSE (IF text[i] \in {"phi", "PHI"} THEN <<"p", "h", "i">>
          ELSE IF text[i] = "X" THEN <<"x">>
          ELSE <<lower_char(text[i])>>)
         \o lower_phi(text, i + 1)

keyword_key(text) == lower_phi(text, 1) \o <<"_count">>

\* a variant that keeps the count of the last keyword as the total
summary_add_last(summary, key, count) ==
    [total_detections |-> count,
     counts |-> [k \in (DOMAIN summary.counts) \cup {key} |->
                   IF k = key THEN count ELSE summary.counts[k]]]

\* summary[keyword_key] = count; summary["total_detections"] += count
summary_add(summary, key, count) ==
    [total_detections |-> summary.total_detections + count,
     counts |-> [k \in (DOMAIN summary.counts) \cup {key} |->
                   IF k = key THEN count ELSE summary.counts[k]]]

EmptySummary == [total_detections |-> 0, counts |-> [k \in {} |-> 0]]

\* the dict both fallbacks return
FallbackDict(keys, detections, summary) ==
    [kind |-> "dict", keys |-> keys, detections |-> detections, summary |-> summary,
     fallback |-> TRUE, ndet |-> Len(detections)]

\* _fallback_text_analysis, lines 949-978: the loop over target_texts
RECURSIVE fallback_text_loop(_, _, _, _, _)
fallback_text_loop(response_text, target_texts, k, detections, summary) ==
    IF k > Len(target_texts) THEN FallbackDict({"detections", "summary", "fallback"}, detections, summary)
    ELSE LET text == target_texts[k]
             count == count_from(str_upper(response_text), str_upper(text), 1)
         IN  fallback_text_loop(response_text, target_texts, k + 1,
                 detections \o [j \in 1..count |->
                                  [text |-> text,
                                   bbox |-> <<100 + (j - 1) * 200, 100 + (j - 1) * 50, 100, 30>>,
                                   confidence |-> "0.5", fallback |-> TRUE]],
                 summary_add(summary, keyword_key(text), count))

_fallback_text_analysis(response_text, target_texts) ==
    fallback_text_loop(response_text, target_texts, 1, <<>>, EmptySummary)

\* int(x) of the quotient n / d, d > 0: truncation toward zero
int_div(n, d) == IF n >= 0 THEN n \div d ELSE -((-n) \div d)

\* int(count ** 0.5)
int_sqrt(count) == CHOOSE q \in 0..count : q * q <= count /\ (q + 1) * (q + 1) > count

py_max(a, b) == IF a >= b THEN a ELSE b
py_min(a, b) == IF a <= b THEN a ELSE b

\* lines 922-935: the guessed box of detection i of count, on a grid
guessed_bbox(size, count, i) ==
    LET width == size[1]
        height == size[2]
        cols == py_max(1, int_sqrt(count))
        rows == py_max(1, (count + cols - 1) \div cols)
        col == i % cols
        row == i \div cols
        x == int_div(width * (2 * col + 1) - 100 * cols, 2 * cols)
        y == int_div(height * (2 * row + 1) - 30 * rows, 2 * rows)
    IN  <<py_max(0, py_min(x, width - 100)), py_max(0, py_min(y, height - 30)), 100, 30>>

\* lines 894-908: the count of one keyword in the response text
enhanced_count(response_text, text) ==
    LET count == count_ignorecase(response_text, escaped_pattern(text, 1))
        number_pattern == pf_number(text, 1)
    IN  IF count = 0 /\ number_pattern.found
        THEN count_ignorecase(response_text, <<"P", "F">> \o number_pattern.number)
        ELSE count

\* _enhanced_fallback_analysis, lines 877-947: the loop over target_texts
RECURSIVE enhanced_fallback_loop(_, _, _, _, _, _)
enhanced_fallback_loop(response_text, target_texts, size, k, detections, summary) ==
    IF k > Len(target_texts)
    THEN FallbackDict({"detections", "summary", "fallback", "note"}, detections, summary)
    ELSE LET text == target_texts[k]
             count == enhanced_count(response_text, text)
         IN  enhanced_fallback_loop(response_text, target_texts, size, k + 1,
                 detections \o [j \in 1..count |->
                                  [text |-> text, bbox |-> guessed_bbox(size, count, j - 1),
                                   confidence |-> "0.3", fallback |-> TRUE]],
                 summary_add(summary, keyword_key(text), count))

_enhanced_fallback_analysis(response_text, target_texts, size) ==
    enhanced_fallback_loop(response_text, target_texts, size, 1, <<>>, EmptySummary)

\* the texts and keyword lists the fallbacks are applied to
TextChars == {"P", "f", "1", "phi"}
Texts == UNION { [1..n -> TextChars] : n \in 0..MaxText }
Keywords ==
    { <<>>, <<"P", "F", "1">>, <<"p", "f">>, <<"x", "P", "F", "1">>, <<"phi">>, <<"1">> }
KeywordLists == UNION { [1..n -> Keywords] : n \in 0..MaxKeywords }
ImageSizes == { <<1000, 800>>, <<60, 20>> }

\* a call of one of the two fallbacks (_fallback_text_analysis takes no image)
FallbackCall(fn, response_text, target_texts, size) ==
    [fn |-> fn, pc |-> "ready", response_text |-> response_text,
     target_texts |-> target_texts, size |-> size, result |-> NoResult]

FallbackTextAnalysis ==
    Apply("_fallback_text_analysis",
          Returned(_fallback_text_analysis(call.response_text, call.target_texts), <<>>))

EnhancedFallbackAnalysis ==
    Apply("_enhanced_fallback_analysis",
          Returned(_enhanced_fallback_analysis(call.response_text, call.target_texts, call.size), <<>>))

InitFallback ==
    \E t \in Texts, kw \in KeywordLists, sz \in ImageSizes :
        \/ InitFn({ FallbackCall("_enhanced_fallback_analysis", t, kw, sz) })
        \/ /\ sz = <<1000, 800>>
           /\ InitFn({ FallbackCall("_fallback_text_analysis", t, kw, sz) })

NextFallback ==
    \/ FallbackTextAnalysis
    \/ EnhancedFallbackAnalysis

SpecFallback == InitFallback /\ [][NextFallback]_vars

----------------------------------------------------------------------------
(* Keyword detection on one page image: gemini.py lines 672-875            *)

\* JList stands for a list with items and JScalar for a scalar that is true
\* in a condition; these are the empty list and the scalars 0, "" and false
JEmptyList == [kind |-> "list", len |-> 0]
JFalsyScalar == [kind |-> "scalar", falsy |-> TRUE]

\* Python truthiness of a JSON value
truthy(v) ==
    CASE v.kind = "null" -> FALSE
      [] v.kind = "dict" -> v.keys # {}
      [] OTHER -> v \notin {JEmptyList, JFalsyScalar}

\* a detection dict whose summary, when it is a dict with total_detections,
\* has that number as total
ImgDict(keys, ndet, summary, total) ==
    [kind |-> "dict", keys |-> keys, item |-> GoodDet, ndet |-> ndet, summary |-> summary,
     total |-> total]

\* lines 792-797: the dict the except clause of analyze_image_with_coordinates returns
image_error_dict == ImgDict({"error", "detections", "summary"}, 0, "dict_total", 0)

\* _retry_with_flexible_prompt, lines 799-875: q1 and q2 are the outcomes of
\* its call with the schema and of the call without it; response_text holds
\* the characters of the reply's text, or of the error message when both
\* calls raised
_retry_with_flexible_prompt(q1, q2, response_text, target_texts, size) ==
    IF q1.raised /\ q2.raised
    THEN Returned(_enhanced_fallback_analysis(response_text, target_texts, size),
                  <<"retry_schema", "retry_plain">>)
    ELSE LET response == IF q1.raised THEN q2.response ELSE q1.response
             calls == IF q1.raised THEN <<"retry_schema", "retry_plain">> ELSE <<"retry_schema">>
             detection_data == _extract_structured(response)
         IN  IF detection_data.kind # "null"
             THEN Returned(detection_data, calls)
             ELSE Returned(_enhanced_fallback_analysis(response_text, target_texts, size), calls)

\* analyze_image_with_coordinates, lines 672-797.  After the retry branch,
\* which ends in "return fb", the statements that set coordinate_space and
\* return detection_data are indented inside that branch and never run: when
\* the condition of the branch is false the try block ends and the method
\* returns None.  In the retry branch, with debug, fb.setdefault("_debug", {})
\* (lines 773-777) adds the key "_debug" to a dict and raises AttributeError
\* on a list or a scalar, which the except clause at line 792 turns into the
\* error dict (without "_debug").
analyze_image_with_coordinates(target_png, o1, o2, q1, q2, response_text, target_texts, size, debug) ==
    IF ~target_png THEN Raised(MsgTargetNotFound, <<>>)
    ELSE IF o1.raised /\ o2.raised THEN Returned(image_error_dict, <<"schema", "plain">>)
    ELSE LET response == IF o1.raised THEN o2.response ELSE o1.response
             calls == IF o1.raised THEN <<"schema", "plain">> ELSE <<"schema">>
             detection_data == _extract_structured(response)
             fb == _retry_with_flexible_prompt(q1, q2, response_text, target_texts, size)
             retried == IF debug /\ ~is_dict(fb.v)
                        THEN Returned(image_error_dict, calls \o fb.calls)
                        ELSE Returned(add_debug(fb.v, debug), calls \o fb.calls)
         IN  IF ~truthy(detection_data) THEN retried
             \* a list or a scalar has no get: AttributeError, caught at line 792
             ELSE IF ~is_dict(detection_data) THEN Returned(image_error_dict, calls)
             ELSE IF ~("detections" \in detection_data.keys /\ detection_data.ndet > 0)
             THEN retried
             ELSE IF "summary" \in detection_data.keys /\ detection_data.summary = "not_dict"
             THEN Returned(image_error_dict, calls)
             ELSE IF \/ "summary" \notin detection_data.keys
                     \/ detection_data.summary = "dict_no_total"
                     \/ detection_data.summary = "dict_total" /\ detection_data.total = 0
             THEN retried
             ELSE Returned(JNull, calls)

\* values a reply to the keyword detection may carry
ImgValues ==
    { JNull, JList, JEmptyList, JScalar, JFalsyScalar, ImgDict({}, 0, "dict_total", 0),
      ImgDict({"summary"}, 0, "dict_total", 1), ImgDict({"detections"}, 1, "dict_total", 0) }
    \cup { ImgDict({"detections", "summary"}, d, "dict_total", t) : d \in 0..MaxDet, t \in 0..MaxDet }
    \cup { ImgDict({"detections", "summary"}, 1, sm, 0) :
              sm \in {"dict_no_total", "dict_bad_total", "not_dict"} }

RetryValues == { JNull, JList, ImgDict({"detections", "summary"}, 1, "dict_total", 1) }

\* target_texts: List[str] = ["PF100", "PF150"]  (line 675)
DefaultTargetTexts == << <<"P", "F", "1", "0", "0">>, <<"P", "F", "1", "5", "0">> >>

OutcomePairs(outcomes) ==
    { <<o, o>> : o \in outcomes } \cup { <<CallRaises(<<"400 INVALID_ARGUMENT">>), o>> : o \in outcomes }

ImageCalls(values, retry_values) ==
    { [fn |-> "analyze_image_with_coordinates", pc |-> "ready", target_png |-> tp,
       o1 |-> oo[1], o2 |-> oo[2], q1 |-> qq[1], q2 |-> qq[2],
       response_text |-> t, target_texts |-> DefaultTargetTexts, size |-> <<1000, 800>>,
       debug |-> dbg, result |-> NoResult] :
         tp \in BOOLEAN, oo \in OutcomePairs(Outcomes(values)),
         qq \in OutcomePairs(Outcomes(retry_values)),
         t \in { <<>>, <<"P", "f", "1", "5", "0">> }, dbg \in BOOLEAN }

AnalyzeImageWithCoordinates ==
    Apply("analyze_image_with_coordinates",
          analyze_image_with_coordinates(call.target_png, call.o1, call.o2, call.q1, call.q2,
                                         call.response_text, call.target_texts, call.size,
                                         call.debug))

----------------------------------------------------------------------------
(* The methods of the model client applied to the replies of the model     *)

SymbolCalls(outcomes) ==
    { [fn |-> "analyze_symbol_with_coordinates", pc |-> "ready", o1 |-> oo[1], o2 |-> oo[2],
       custom_target |-> ct, target_png |-> tp, debug |-> dbg, result |-> NoResult] :
         ct \in BOOLEAN, tp \in BOOLEAN, dbg \in BOOLEAN,
         oo \in { <<o, o>> : o \in outcomes }
               \cup { <<CallRaises(<<"400 INVALID_ARGUMENT">>), o>> : o \in outcomes } }

ExtractCalls(responses) ==
    { [fn |-> "_extract_structured", pc |-> "ready", response |-> rsp, result |-> NoResult] :
         rsp \in responses }

AnalyzeSymbolWithCoordinates ==
    Apply("analyze_symbol_with_coordinates",
          analyze_symbol_with_coordinates(call.custom_target, call.target_png, call.o1, call.o2,
                                          call.debug))

\* the whole body of _extract_structured is inside try/except Exception, so
\* the call returns
ExtractStructured ==
    Apply("_extract_structured", Returned(_extract_structured(call.response), <<>>))

InitClient ==
    \/ InitFn(AnalyzerCalls)
    \/ InitFn(SymbolCalls(Outcomes(ReplyDetValues)))
    \/ InitFn(ExtractCalls(FnResponses))
    \/ InitFn(ImageCalls(ImgValues, RetryValues))

NextClient ==
    \/ AnalyzePdfDocument
    \/ AnalyzePipeShafts
    \/ DetectTargetImageInPdf
    \/ AnalyzeSymbolWithCoordinates
    \/ AnalyzeImageWithCoordinates
    \/ ExtractStructured

SpecClient == InitClient /\ [][NextClient]_vars

----------------------------------------------------------------------------
(* Properties of request handling *)

NoEffects(f) == f.reads = 0 /\ f.rasters = 0 /\ f.calls = 0

\* C1: while gemini_available is false, a request to any of the four analysis
\* endpoints, whatever its file name, is answered 503 and has read no upload,
\* rasterized nothing and made no model call.
C1_Unavailable503 ==
    \A r \in DOMAIN req :
        (req[r].endpoint \in AnalysisEndpoints /\ req[r].pc # "idle" /\ ~gemini_available)
        => /\ req[r].pc \in {"entry", "done"}
           /\ NoEffects(req[r])
           /\ req[r].pc = "done" => req[r].response.status = 503

\* a request with a name that is no PDF name was answered 503
C1_Witness ==
    \E r \in DOMAIN req :
        /\ req[r].endpoint \in AnalysisEndpoints
        /\ ~gemini_available
        /\ req[r].pc = "done"
        /\ req[r].response.status = 503
        /\ ~endswith(str_lower(req[r].filename.s), DotPdf)

\* the upload handlers that run their file name check on this request
ChecksName(f) ==
    /\ f.endpoint \in UploadEndpoints
    /\ f.pc \notin {"idle", "entry"}
    /\ f.endpoint \in AnalysisEndpoints => gemini_available

Answered400(f) ==
    /\ f.pc = "done"
    /\ f.response.status = 400
    /\ f.response.detail = MsgOnlyPdf
    /\ NoEffects(f)

\* C2 as stated: a name that is missing, empty or does not end in ".pdf" is
\* answered 400 "Only PDF files are allowed" by every upload endpoint, before
\* any read, rasterization or model call.
C2_Original ==
    \A r \in DOMAIN req :
        (ChecksName(req[r]) /\ (~truthy_name(req[r].filename) \/ ~endswith(req[r].filename.s, DotPdf)))
        => Answered400(req[r])

\* the name test of C2 as amended: /highlight-pdf and /analyze-pdf compare the
\* name as given, the other three compare its lower-cased form
C2_NotPdfName(endpoint, filename) ==
    \/ filename.is_none
    \/ filename.s = <<>>
    \/ /\ endpoint \in {"highlight_pdf_with_ai_analysis", "analyze_pdf"}
       /\ ~endswith(filename.s, DotPdf)
    \/ /\ endpoint \notin {"highlight_pdf_with_ai_analysis", "analyze_pdf"}
       /\ ~endswith(str_lower(filename.s), DotPdf)

\* C2 (amended): every upload endpoint answers 400 "Only PDF files are allowed",
\* before any read, rasterization or model call, when the name is missing,
\* empty or does not end in ".pdf", where /gemini/document-analyze,
\* /gemini/pipe-shaft-detect and /detect-target-image ignore letter case and
\* /highlight-pdf and /analyze-pdf do not; a name that passes this test is
\* never answered 400.
C2_Rejects400 ==
    \A r \in DOMAIN req :
        ChecksName(req[r])
        => /\ C2_NotPdfName(req[r].endpoint, req[r].filename) => Answered400(req[r])
           /\ ~C2_NotPdfName(req[r].endpoint, req[r].filename) => req[r].response.status # 400

\* an upper-case name was answered 400 by /analyze-pdf with Gemini available
C2_Witness ==
    \E r \in DOMAIN req :
        /\ req[r].endpoint = "analyze_pdf"
        /\ gemini_available
        /\ req[r].filename = Name(<<"A", ".", "P", "D", "F">>)
        /\ Answered400(req[r])

\* the request entered its handler's try block
InTry(f) == f.endpoint \in UploadEndpoints /\ passed_checks(f)

\* C3 as stated: past the checks, every exception raised while reading,
\* rasterizing, calling the model or compositing ends the request with a 500
\* whose detail contains the exception's message.
C3_Original ==
    \A r \in DOMAIN req :
        (InTry(req[r]) /\ req[r].pc = "done" /\ (req[r].exc # <<>> \/ req[r].caught # <<>>))
        => /\ req[r].response.status = 500
           /\ req[r].exc # <<>> => Contains(req[r].response.detail, req[r].exc)
           /\ req[r].caught # <<>> => Contains(req[r].response.detail, req[r].caught)

\* C3 (amended): past the checks, every exception that reaches the handler's
\* except clause ends the request, at that step, with a 500 whose detail
\* contains the exception's message, and a request without one ends with 200;
\* an exception of describe_target_image in /analyze-pdf is caught before, kept
\* in target_image_overview, and does not end the request.
C3_Exception500 ==
    \A r \in DOMAIN req :
        InTry(req[r])
        => /\ req[r].exc # <<>>
              => /\ req[r].pc = "done"
                 /\ req[r].response.status = 500
                 /\ Contains(req[r].response.detail, req[r].exc)
           /\ (req[r].pc = "done" /\ req[r].exc = <<>>) => req[r].response.status = 200
           /\ req[r].caught # <<>>
              => /\ req[r].endpoint = "analyze_pdf"
                 /\ req[r].target_overview = "error"

\* an exception raised after the model was called ended a request with 500
C3_Witness ==
    \E r \in DOMAIN req :
        /\ InTry(req[r])
        /\ req[r].endpoint = "gemini_document_analyze"
        /\ req[r].failed_at = "analyze"
        /\ req[r].calls > 0
        /\ req[r].exc # <<>>
        /\ req[r].response.status = 500
        /\ Contains(req[r].response.detail, req[r].exc)

\* C4: GET / succeeds and reports gemini_available, with status "Ready"
\* exactly when an AI backend is available.
C4_RootReady ==
    \A r \in DOMAIN req :
        (req[r].endpoint = "hello_world" /\ req[r].pc = "done")
        => /\ req[r].response.status = 200
           /\ req[r].response.gemini_available = gemini_available
           /\ req[r].response.ready = gemini_available

\* C6: a successful /analyze-pdf response with highlight=true holds one
\* highlighted_images entry per rasterized page, pages 1..n in order, and n
\* detection_data entries; a page whose detection result has an "error" key
\* gives an entry {page, error} and the pages after it are processed; with
\* highlight=false both lists are empty.  While the loop runs, one entry has
\* been added for each page done.
C6_OneEntryPerPage ==
    \A r \in DOMAIN req :
        LET f == req[r]
            hl == f.highlighted_images
            dd == f.all_detection_data
        IN  (f.endpoint = "analyze_pdf" /\ f.pc \in {"pages", "done"} /\ InTry(f) /\ f.exc = <<>>)
            => /\ Len(hl) = f.page_i
               /\ Len(dd) = f.page_i
               /\ \A i \in 1..Len(hl) :
                    /\ hl[i].page = i
                    /\ dd[i].error <=> hl[i].keys = {"page", "error"}
               /\ f.pc = "done"
                  => /\ f.response.status = 200
                     /\ f.response.highlighted_images = hl
                     /\ f.response.detection_data = dd
                     /\ f.page_i = IF f.highlight THEN f.images ELSE 0

\* a two-page answer whose first page failed detection and whose second did not
C6_Witness ==
    \E r \in DOMAIN req :
        /\ req[r].endpoint = "analyze_pdf"
        /\ req[r].pc = "done"
        /\ req[r].response.status = 200
        /\ req[r].highlight
        /\ req[r].images >= 2
        /\ Len(req[r].response.highlighted_images) = req[r].images
        /\ req[r].response.highlighted_images[1].keys = {"page", "error"}
        /\ req[r].response.highlighted_images[2].keys # {"page", "error"}

\* C9: without a dpi parameter /analyze-pdf rasterizes at 200 DPI and reports
\* that value.
C9_DefaultDpi200 ==
    \A r \in DOMAIN req :
        (req[r].endpoint = "analyze_pdf" /\ req[r].dpi_param = {} /\ req[r].pc # "idle")
        => /\ req[r].dpi = documented_default_dpi_analyze_pdf
           /\ (req[r].pc = "done" /\ req[r].response.status = 200)
              => req[r].response.dpi = documented_default_dpi_analyze_pdf

\* C10: when the analyzer cannot be built in /analyze-pdf, the client gets the
\* HTTPException raised there: 500 "Failed to initialize model <model>: <error>".
C10_InitFailureDetail ==
    \A r \in DOMAIN req :
        (req[r].endpoint = "analyze_pdf" /\ req[r].failed_at = "init")
        => /\ req[r].response.status = 500
           /\ \E err \in {<<"client error">>, <<"GEMINI_API_KEY environment variable is not set">>} :
                req[r].response.detail = <<"Failed to initialize model ", req[r].model, ": ">> \o err

----------------------------------------------------------------------------
(* Properties of concurrent requests: SpecConc *)

\* the request as the framework hands it to the handler: the frame with the
\* parameters of f and nothing else
C5_Request(f) ==
    bind_parameters(f.endpoint, f.filename, f.dpi_param, f.highlight, f.model,
                    f.target_given, f.debug)

\* the outcomes of the two calls of the model in one step: the second call is
\* made only when the first raised
C5_Replies(outcomes) ==
    { p \in outcomes \X outcomes : p[1] = p[2] \/ p[1].raised }

\* the frames the handler of a request reaches in one step from the frame f
\* when the request is the only one the process ever handles: the module-level
\* flag has its startup value, and the inputs of the step (the outcome of a
\* read, of rasterizing, of building the client, the replies of the model, the
\* random counts) range over the sets of SpecConc
C5_StepsAlone(f, e) ==
    CASE f.pc = "entry" ->
           { IF f.endpoint = "hello_world"
             THEN hello_world(f, startup_available(e), ModuleGlobals)
             ELSE entry_checks(f, startup_available(e)) }
      [] f.pc = "read" ->
           LET g == [f EXCEPT !.reads = @ + 1] IN
           { raise_in_try(g, Exc(<<"upload read failed">>)),
             [g EXCEPT !.pc = IF g.endpoint = "highlight_pdf_with_ai_analysis"
                              THEN "open" ELSE "convert"] }
      [] f.pc = "convert" ->
           LET g == [f EXCEPT !.rasters = @ + 1] IN
           { raise_in_try(g, Exc(<<"Unable to get page count.">>)),
             [g EXCEPT !.images = 1, !.preview_images = _create_image_previews(1),
                       !.pc = IF g.target_given THEN "target" ELSE "init"] }
      [] f.pc = "init" ->
           { init_model(f, analyzer_init(e, client_ok, f.model)) : client_ok \in BOOLEAN }
      [] f.pc = "describe" ->
           { describe_step(f, describe_target_image(f.target_given, e.target_png)) }
      [] f.pc = "pages" ->
           IF f.highlight /\ f.page_i < f.images
           THEN { page_step(f, analyze_symbol_with_coordinates(
                                   f.target_given, e.target_png, p[1], p[2], f.debug)) :
                    p \in C5_Replies(ConcOutcomes(ConcDetValues)) }
           ELSE { analyze_pdf_response(f) }
      [] f.pc = "analyze" ->
           { analysis_response(f,
                 CASE f.endpoint = "gemini_document_analyze" ->
                          analyze_pdf_document(p[1], p[2], f.debug)
                   [] f.endpoint = "gemini_pipe_shaft_detect" ->
                          analyze_pipe_shafts(p[1], p[2], f.debug)
                   [] OTHER -> detect_target_image_in_pdf(
                                   f.target_given, e.target_png, raster_ok, p[1], p[2],
                                   f.debug)) :
               p \in C5_Replies(ConcOutcomes(ConcPagesValues)),
               raster_ok \in IF f.endpoint = "detect_target_image" THEN BOOLEAN ELSE {TRUE} }
      [] f.pc = "open" ->
           { raise_in_try(f, Exc(<<"Failed to open stream">>)) }
           \cup { [f EXCEPT !.images = 1,
                            !.coordinates = simulate_ai_analysis(1, counts, 0, <<>>),
                            !.pc = "annotate"] :
                    counts \in [1..1 -> MinHighlightsPerPage..MaxHighlightsPerPage] }
      [] f.pc = "annotate" ->
           { raise_in_try([f EXCEPT !.annotations =
                               add_highlight_annots(SubSeq(f.coordinates, 1, k), 1, <<>>)],
                          Exc(<<"annotation failed">>)) : k \in 0..Len(f.coordinates) }
           \cup { highlight_pdf_response(
                      [f EXCEPT !.annotations = add_highlight_annots(f.coordinates, 1, <<>>)]) }
      [] OTHER -> {}

\* the frames reachable from the frames of frontier by steps of the handler
\* when the request is handled alone
RECURSIVE C5_FramesAlone(_, _, _)
C5_FramesAlone(frontier, seen, e) ==
    IF frontier = {} THEN seen
    ELSE LET next == UNION { C5_StepsAlone(f, e) : f \in frontier } IN
         C5_FramesAlone(next \ (seen \cup frontier), seen \cup frontier, e)

\* the responses a request with the parameters of f gets when it is the only
\* request the process handles, over all replies of the model to it
C5_ResponsesAlone(f, e) ==
    { g.response : g \in { h \in C5_FramesAlone({C5_Request(f)}, {}, e) : h.pc = "done" } }

\* C5: no handler step writes the module-level gemini_available or
\* gemini_analyzer; the analyzer a request uses is one it built itself, for its
\* own model parameter; and under every interleaving of two requests each step
\* of a request leads from its frame to a frame its handler reaches from there
\* when the request is handled alone, leaving every other request's frame as
\* it is, so that the response a request gets is a response its own parameters
\* and the replies to it give when no other request exists.
C5_Stateless ==
    /\ [][ /\ gemini_available' = gemini_available
           /\ gemini_analyzer' = gemini_analyzer
           /\ \A r \in DOMAIN req :
                req'[r] # req[r]
                => /\ \A q \in DOMAIN req \ {r} : req'[q] = req[q]
                   /\ req[r].pc # "idle" => req'[r] \in C5_StepsAlone(req[r], env)
                   /\ req[r].pc = "idle" => req'[r] = C5_Request(req'[r])
           /\ \A r \in DOMAIN req :
                req'[r].analyzer # {}
                => /\ req'[r].analyzer = {[model_name |-> req'[r].model]}
                   /\ req[r].pc = "init" \/ req'[r].analyzer = req[r].analyzer
         ]_vars
    /\ [](\A r \in DOMAIN req :
            req[r].pc = "done" => req[r].response \in C5_ResponsesAlone(req[r], env))

\* a request was answered 200 with an analyzer of its own, for a model that is
\* not the model of the module-level analyzer, while another request, whose
\* analyzer could not be built, was answered 500
C5_Witness ==
    \E r \in DOMAIN req : \E q \in DOMAIN req :
        /\ r # q
        /\ req[r].analyzer = {[model_name |-> "gemini-2.5-flash"]}
        /\ req[r].pc = "done"
        /\ req[r].response.status = 200
        /\ req[q].pc = "done"
        /\ req[q].failed_at = "init"
        /\ req[q].response.status = 500
        /\ req[q].reads = 1 /\ req[r].reads = 1
        /\ gemini_analyzer = {[model_name |-> DefaultModel]}
        /\ gemini_available

----------------------------------------------------------------------------
(* Properties of the compositor functions: SpecCompositor *)

IsCompositorCall == call.fn \in {"_create_image_previews", "_create_highlighted_images",
                                 "_create_target_highlighted_images"}

OneEntryPerPage(entries, images) ==
    /\ Len(entries) = images
    /\ \A i \in 1..images : entries[i].page = i

\* C7 as stated: each of the three functions returns one entry per page image,
\* pages 1..n in order, whatever the detection data contain.
C7_Original ==
    (IsCompositorCall /\ call.pc = "done")
    => /\ ~call.result.raised
       /\ OneEntryPerPage(call.result.v, call.images)

\* the element of "pages" the dict comprehension keeps for page i: the last
\* one that names it
C7_LastFor(detection_data, i) ==
    LET ks == { k \in 1..Len(detection_data.pages) : detection_data.pages[k].page = i }
    IN  detection_data.pages[CHOOSE k \in ks : \A j \in ks : j <= k]

C7_Named(detection_data, i) ==
    \E k \in 1..Len(detection_data.pages) : detection_data.pages[k].page = i

\* a well-formed detection: a dict whose "target" and "type" are strings or
\* absent and whose "position" is absent or a dict with "x" and "y" each absent
\* or a number
C7_DetectionOk(det) ==
    /\ det.kind = "dict"
    /\ det.target \in {"absent", "", "PF100", "PF150", "other"}
    /\ det.type \in {"absent", "", "PF100", "PF150", "other"}
    /\ \/ det.position.kind = "absent"
       \/ /\ det.position.kind = "dict"
          /\ det.position.x \in {"absent", "number"}
          /\ det.position.y \in {"absent", "number"}

\* well-formed detection data: "pages" is absent, or a list of dicts each with
\* an integer "page" and a "detections" key, and for every page 1..n the
\* "detections" kept for it is a list of well-formed detections
C7_WellFormed(images, detection_data) ==
    \/ "pages" \notin detection_data.keys
    \/ /\ detection_data.pages_kind = "list"
       /\ \A k \in 1..Len(detection_data.pages) : detection_data.pages[k].kind = "ok"
       /\ \A i \in 1..images :
            C7_Named(detection_data, i)
            => /\ C7_LastFor(detection_data, i).dets = "list"
               /\ C7_LastFor(detection_data, i).ndet > 0
                  => C7_DetectionOk(C7_LastFor(detection_data, i).item)

\* detection data on which both highlight functions raise: "pages" is null, a
\* number or a string; an element of "pages" is no dict, lacks "page" or
\* "detections" or has a "page" that cannot be hashed; the "detections" kept
\* for a page 1..n is null or a number, or holds a number
C7_Broken(images, detection_data) ==
    /\ "pages" \in detection_data.keys
    /\ \/ detection_data.pages_kind # "list"
       \/ \E k \in 1..Len(detection_data.pages) : detection_data.pages[k].kind # "ok"
       \/ \E i \in 1..images :
            /\ C7_Named(detection_data, i)
            /\ \/ C7_LastFor(detection_data, i).dets \in {"null", "number"}
               \/ /\ C7_LastFor(detection_data, i).dets = "list"
                  /\ C7_LastFor(detection_data, i).ndet > 0
                  /\ C7_LastFor(detection_data, i).item.kind = "number"

\* the detections the data give for page i: those of the last element of
\* "pages" that names page i, none when no element does
C7_DetectionsOf(detection_data, i) ==
    LET pages == IF "pages" \in detection_data.keys THEN detection_data.pages ELSE <<>>
        ks == { k \in 1..Len(pages) : pages[k].page = i }
    IN  IF ks = {} THEN 0 ELSE pages[CHOOSE k \in ks : \A j \in ks : j <= k].ndet

\* C7 (amended): _create_image_previews always returns; the two highlight
\* functions return whenever the detection data are well formed, and raise on
\* the broken data listed above; whenever one of the three returns, it returns
\* one entry per page image, pages 1..n in order, where a page the data do not
\* name has zero detections and elements naming pages outside 1..n are ignored.
C7_OneEntryPerImage ==
    (IsCompositorCall /\ call.pc = "done")
    => /\ call.fn = "_create_image_previews" => ~call.result.raised
       /\ call.fn # "_create_image_previews"
          => /\ C7_WellFormed(call.images, call.detection_data) => ~call.result.raised
             /\ C7_Broken(call.images, call.detection_data) => call.result.raised
       /\ ~call.result.raised
          => /\ OneEntryPerPage(call.result.v, call.images)
             /\ call.fn # "_create_image_previews"
                => \A i \in 1..call.images :
                     call.result.v[i].ndet = C7_DetectionsOf(call.detection_data, i)

\* a highlight function returned two entries for data that name page 2 and a
\* page outside 1..2, and not page 1
C7_Witness ==
    /\ call.fn = "_create_highlighted_images"
    /\ call.pc = "done"
    /\ C7_WellFormed(call.images, call.detection_data)
    /\ ~call.result.raised
    /\ call.images = 2
    /\ Len(call.detection_data.pages) = 2
    /\ call.detection_data.pages[1].page = 3
    /\ call.detection_data.pages[2].page = 2
    /\ call.detection_data.pages[2].ndet = 1
    /\ call.result.v[1].ndet = 0
    /\ call.result.v[2].ndet = 1

----------------------------------------------------------------------------
(* Properties of the PDF analysis methods: SpecAnalyzer *)

IsAnalyzerCall == call.fn \in {"analyze_pdf_document", "analyze_pipe_shafts",
                               "detect_target_image_in_pdf"}

HasSummaryAndPages(v) == is_dict(v) /\ {"summary", "pages"} \subseteq v.keys

\* the values a response carries, in response.parsed, in an inline part or as
\* its text
Carried(response) ==
    (IF response.parsed.kind \in {"pydantic", "value"} THEN {response.parsed.v} ELSE {})
    \cup { response.parts[i].data.v : i \in { j \in 1..Len(response.parts) : response.parts[j].data.t = "json" } }
    \cup (IF response.text.t = "json" THEN {response.text.v} ELSE {})

\* the response the method parses: that of the first call, or of the second
\* when the first raised
ParsedResponse == IF call.o1.raised THEN call.o2.response ELSE call.o1.response

\* C8: every value the three methods return is a dict with the keys "summary"
\* and "pages": one the reply carries, or the fallback (with the key "_debug"
\* added when debug is set); when the reply carries no such dict it is the
\* fallback, with total_detections 0, no pages and the notes "fallback:
\* failed to parse structured output".
C8_SummaryAndPages ==
    (IsAnalyzerCall /\ call.pc = "done" /\ ~call.result.raised)
    => /\ HasSummaryAndPages(call.result.v)
       /\ \E v \in Carried(ParsedResponse) \cup {fallback_result} :
             call.result.v = add_debug(v, call.debug)
       /\ (\A v \in Carried(ParsedResponse) : ~HasSummaryAndPages(v))
          => /\ call.result.v.total = 0
             /\ call.result.v.pages = <<>>
             /\ call.result.v.notes = <<"fallback: failed to parse structured output">>

\* the reply was a dict without "pages" and the method, called with debug,
\* returned the fallback with the key "_debug"
C8_Witness ==
    /\ IsAnalyzerCall
    /\ call.pc = "done"
    /\ ~call.result.raised
    /\ ParsedResponse.parsed.kind = "value"
    /\ is_dict(ParsedResponse.parsed.v)
    /\ ParsedResponse.parsed.v.keys = {"summary"}
    /\ ParsedResponse.text.t = "json"
    /\ ParsedResponse.text.v = ParsedResponse.parsed.v
    /\ call.debug
    /\ call.result.v = add_debug(fallback_result, TRUE)

----------------------------------------------------------------------------
(* Properties of the annotation prototype: Spec *)

\* the coordinates simulate_ai_analysis gave for page index p
C11_OnPage(coordinates, p) == { i \in 1..Len(coordinates) : coordinates[i].page = p }

\* C11: in POST /highlight-pdf, once the document of n pages is open, the
\* coordinates hold between 1 and 5 entries for each page index 0..n-1 and no
\* entry for any other page; a 200 response reports in X-Total-Highlights the
\* number of annotations added, one per coordinate and on its page, which lies
\* between n and 5n, and in X-Pages-Processed the number n.
C11_HighlightCounts ==
    \A r \in DOMAIN req :
        LET f == req[r] IN
        (f.endpoint = "highlight_pdf_with_ai_analysis" /\ f.images > 0)
        => /\ \A i \in 1..Len(f.coordinates) : f.coordinates[i].page \in 0..(f.images - 1)
           /\ \A p \in 0..(f.images - 1) :
                /\ Cardinality(C11_OnPage(f.coordinates, p)) >= 1
                /\ Cardinality(C11_OnPage(f.coordinates, p)) <= 5
           /\ (f.pc = "done" /\ f.response.status = 200)
              => /\ Len(f.annotations) = Len(f.coordinates)
                 /\ \A i \in 1..Len(f.coordinates) : f.annotations[i] = f.coordinates[i].page
                 /\ f.response.total_highlights = Len(f.annotations)
                 /\ f.response.total_highlights >= f.images
                 /\ f.response.total_highlights <= 5 * f.images
                 /\ f.response.pages_processed = f.images

\* a two-page document got 1 highlight on its first page and 5 on its second,
\* and the response reports 6 highlights and 2 pages
C11_Witness ==
    \E r \in DOMAIN req :
        /\ req[r].endpoint = "highlight_pdf_with_ai_analysis"
        /\ req[r].pc = "done"
        /\ req[r].response.status = 200
        /\ req[r].images = 2
        /\ Cardinality(C11_OnPage(req[r].coordinates, 0)) = 1
        /\ Cardinality(C11_OnPage(req[r].coordinates, 1)) = 5
        /\ req[r].response.total_highlights = 6
        /\ req[r].response.pages_processed = 2

----------------------------------------------------------------------------
(* Properties of the file name rule of the analysis endpoints: Spec *)

\* C12: with Gemini available, each of the four analysis endpoints answers 400
\* exactly when the lower-cased file name does not end with ".pdf" (or the name
\* is missing or empty), so an upper-case PDF name is accepted by all four.
C12_SameRule ==
    \A r \in DOMAIN req :
        (req[r].endpoint \in AnalysisEndpoints /\ gemini_available /\ req[r].pc \notin {"idle", "entry"})
        => (Answered400(req[r])
            <=> (~truthy_name(req[r].filename)
                 \/ ~endswith(str_lower(req[r].filename.s), DotPdf)))

----------------------------------------------------------------------------
(* Properties of the responses of the PDF analysis endpoints: Spec *)

\* C13: every 200 response of /gemini/document-analyze,
\* /gemini/pipe-shaft-detect and /detect-target-image has total_pages equal to
\* the number of page images, to the length of preview_images and to the
\* length of highlighted_images, both lists numbering the pages 1..n; so
\* highlighted_images is not empty for a PDF with at least one page.
C13_SameLengths ==
    \A r \in DOMAIN req :
        LET f == req[r] IN
        (/\ f.endpoint \in {"gemini_document_analyze", "gemini_pipe_shaft_detect",
                             "detect_target_image"}
         /\ f.pc = "done"
         /\ f.response.status = 200)
        => /\ f.response.total_pages = f.images
           /\ Len(f.response.preview_images) = f.response.total_pages
           /\ Len(f.response.highlighted_images) = f.response.total_pages
           /\ \A i \in 1..f.images :
                /\ f.response.preview_images[i].page = i
                /\ f.response.highlighted_images[i].page = i
           /\ f.images >= 1 => f.response.highlighted_images # <<>>

\* both calls of the model failed to give a parsable reply for a two-page PDF
\* and the response still has two highlighted images, without detections
C13_Witness ==
    \E r \in DOMAIN req :
        /\ req[r].endpoint = "gemini_pipe_shaft_detect"
        /\ req[r].pc = "done"
        /\ req[r].response.status = 200
        /\ req[r].calls = 2
        /\ req[r].images = 2
        /\ Len(req[r].response.highlighted_images) = 2
        /\ req[r].response.highlighted_images[1].ndet = 0
        /\ req[r].response.highlighted_images[2].ndet = 0

----------------------------------------------------------------------------
(* Properties of the model client: SpecClient *)

\* C15: _extract_structured returns, for every response object, a dict or
\* None.
C15_DictOrNone ==
    (call.fn = "_extract_structured" /\ call.pc = "done")
    => /\ ~call.result.raised
       /\ call.result.v.kind \in {"dict", "null"}

C16_Methods == {"analyze_pdf_document", "analyze_pipe_shafts", "detect_target_image_in_pdf",
                "analyze_symbol_with_coordinates"}

C16_Prefix(fn) ==
    CASE fn = "analyze_pdf_document" -> <<"PDF analysis error: ">>
      [] fn = "analyze_pipe_shafts" -> <<"pipe shaft detection error: ">>
      [] OTHER -> <<"target image detection error: ">>

\* C16: the four methods call the model first with the schema; they call it a
\* second time, without the schema, exactly when the first call raised, and
\* never a third time.  When the second call raises too, the three PDF methods
\* raise an exception whose message is their prefix followed by the message
\* of the second failure, and analyze_symbol_with_coordinates returns a dict
\* with an "error" key.
C16_SecondCallOnlyAfterFailure ==
    (call.fn \in C16_Methods /\ call.pc = "done")
    => LET calls == call.result.calls IN
       /\ calls \in {<<>>, <<"schema">>, <<"schema", "plain">>}
       /\ calls # <<>>
          => /\ (calls = <<"schema", "plain">>) <=> call.o1.raised
             /\ (call.o1.raised /\ call.o2.raised)
                => IF call.fn = "analyze_symbol_with_coordinates"
                   THEN /\ ~call.result.raised
                        /\ is_dict(call.result.v)
                        /\ "error" \in call.result.v.keys
                   ELSE /\ call.result.raised
                        /\ call.result.msg = C16_Prefix(call.fn) \o call.o2.msg
             /\ (call.o1.raised /\ ~call.o2.raised /\ call.fn # "analyze_symbol_with_coordinates")
                => ~call.result.raised

\* analyze_pipe_shafts called the model twice and both calls raised
C16_Witness ==
    /\ call.fn = "analyze_pipe_shafts"
    /\ call.pc = "done"
    /\ call.o1.raised
    /\ call.o2.raised
    /\ call.result.calls = <<"schema", "plain">>
    /\ call.result.raised

----------------------------------------------------------------------------
(* Properties of the text fallbacks: SpecFallback *)

\* C17: in the result of _enhanced_fallback_analysis and of
\* _fallback_text_analysis, summary.total_detections equals the length of the
\* detections list and every detection has fallback = True, for every response
\* text and keyword list.
C17_TotalIsLength ==
    (call.fn \in {"_enhanced_fallback_analysis", "_fallback_text_analysis"} /\ call.pc = "done")
    => /\ ~call.result.raised
       /\ call.result.v.summary.total_detections = Len(call.result.v.detections)
       /\ \A i \in 1..Len(call.result.v.detections) : call.result.v.detections[i].fallback

\* the same keyword twice, found once each (ignoring case): its summary key
\* keeps the count 1, the total and the detections count both
C17_Witness ==
    /\ call.fn = "_enhanced_fallback_analysis"
    /\ call.pc = "done"
    /\ call.response_text = <<"P", "f", "1">>
    /\ call.target_texts = << <<"P", "F", "1">>, <<"P", "F", "1">> >>
    /\ Len(call.result.v.detections) = 2
    /\ call.result.v.summary.total_detections = 2
    /\ call.result.v.summary.counts[<<"p", "f", "1", "_count">>] = 1

----------------------------------------------------------------------------
(* Properties of the keyword detection: SpecClient *)

\* the dict the first reply of the model carries, when it has a non-empty
\* detections list and a summary whose total_detections is above 0
C14_Detected(v) ==
    /\ is_dict(v)
    /\ {"detections", "summary"} \subseteq v.keys
    /\ v.ndet > 0
    /\ v.summary = "dict_total"
    /\ v.total > 0

\* C14: analyze_image_with_coordinates returns a dict in every call; when the
\* first reply carries a non-empty detections list with
\* summary.total_detections > 0, it returns that dict with the key
\* coordinate_space added, and it never returns None.
C14_ReturnsDetections ==
    (call.fn = "analyze_image_with_coordinates" /\ call.pc = "done" /\ call.target_png)
    => /\ ~call.result.raised
       /\ is_dict(call.result.v)
       /\ (~call.o1.raised /\ C14_Detected(_extract_structured(call.o1.response)))
          => call.result.v = add_debug([_extract_structured(call.o1.response) EXCEPT
                                           !.keys = @ \cup {"coordinate_space"}], call.debug)

====
